---- MODULE Spec2Model ----
(***************************************************************************)
(* Model of the nodeup Service task (upup/pkg/fi/nodeup/nodetasks/         *)
(* service.go): InitDefaults, Find, the diff of actual against desired,    *)
(* and RenderLocal, run against a model of the systemd host they talk to.  *)
(*                                                                         *)
(* Go pointers to bool and string are sets of at most one element: {} is   *)
(* nil, {v} points to v.  A unit file is a sequence of lines, a line a     *)
(* sequence of atoms (keys, "=", " ", paths), so that the parsing done by  *)
(* getSystemdDependencies is computed, not assumed.                        *)
(***************************************************************************)
EXTENDS Integers, Sequences, FiniteSets, TLC

\* the Service task, the host and the convergence pass
VARIABLES e0, e, nDefaults, sys, now, pc, a, findErr, changes, res, passes

\* a call of GetDependencies: the task map, the task asked, what it returned
VARIABLES tasks, receiver, deps, nCalls

\* the install target handed to RenderInstall
VARIABLES target

\* a convergence pass over a task graph: the edges, the resolver's result,
\* each task's state, the failures the tasks will meet, the pass's result
VARIABLES graph, order, resolveErr, state, failAt, passResult

\* a bootstrap request with what the cloud answers for it, and what
\* VerifyToken returned; an instance and its certificate names
VARIABLES request, verify, instance, sans

\* a cluster spec as handed to PerformAssignments, the spec as the call left
\* it, and what the call returned
VARIABLES cluster0, cluster, assignment

\* the options of a toolbox enroll command, what its collaborators will
\* answer, what the command did to the outside, and what it returned
VARIABLES options, world, effects, enroll

\* a case of TestBuildKubecfg, what BuildKubecfg returned for it, and the
\* errors the test reported
VARIABLES testCase, kubecfg, reported

serviceVars == <<e0, e, nDefaults, sys, now, pc, a, findErr, changes, res, passes>>

dependencyVars == <<tasks, receiver, deps, nCalls>>

installVars == <<target>>

executorVars == <<graph, order, resolveErr, state, failAt, passResult>>

verifierVars == <<request, verify, instance, sans>>

assignmentVars == <<cluster0, cluster, assignment>>

\* the variables the Service task's steps leave alone
enrollVars == <<options, world, effects, enroll>>

kubecfgVars == <<testCase, kubecfg, reported>>

restVars == <<dependencyVars, installVars, executorVars, verifierVars,
              assignmentVars, enrollVars, kubecfgVars>>

vars == <<serviceVars, restVars>>

----------------------------------------------------------------------------
(* Bounds *)

MaxTime == 2

MaxPasses == 2

MaxDefaults == 2

\* tasks in the map handed to GetDependencies, and calls made on it
MaxTasks == 3

MaxCalls == 2

\* tasks of a pass that meet a failure
MaxFailures == 1

\* network interfaces of an instance
MaxInterfaces == 3

\* fields of a valid bootstrap request, and of what the cloud answers for
\* it, that are changed
MaxDeviations == 2

\* etcd clusters of a cluster spec
MaxEtcdClusters == 1

\* additional files of the bootstrap data
MaxAdditionalFiles == 2

----------------------------------------------------------------------------
(* Pointers *)

Nil == {}

PtrTo(v) == {v}

Deref(p) == CHOOSE x \in p : TRUE

\* fi.ValueOf on a bool pointer: the zero value (false) for nil
ValueOf(p) == IF p = Nil THEN FALSE ELSE Deref(p)

\* fi.ValueOf on a string pointer: the zero value ("", the empty text) for nil
ValueOfString(p) == IF p = Nil THEN <<>> ELSE Deref(p)

BoolPtr == {Nil, PtrTo(TRUE), PtrTo(FALSE)}

----------------------------------------------------------------------------
(* Names, paths and unit-file texts *)

kubeletService == "kubelet.service"

debianSystemdSystemPath == "/lib/systemd/system"

\* path.Join(systemdSystemPath, e.Name) for the one service of the model
UnitPath == "/lib/systemd/system/kubelet.service"

EnvPath == "/etc/sysconfig/kubelet"

BinPath == "/usr/local/bin/kubelet"

Paths == {UnitPath, EnvPath, BinPath}

\* A unit with an EnvironmentFile (written with blanks around "="), an
\* ExecStart with arguments, installed into multi-user.target.
DefFull ==
  << <<"[Service]">>,
     <<" ", "EnvironmentFile", " ", "=", " ", EnvPath, " ">>,
     <<"ExecStart", "=", BinPath, " ", "$DAEMON_ARGS", " ", "--v", "=", "2">>,
     <<"[Install]">>,
     <<"WantedBy", "=", "multi-user.target">> >>

\* A unit whose EnvironmentFile carries systemd's "-" (optional) prefix and
\* which is installed into a target Find does not recognize.
DefDash ==
  << <<"EnvironmentFile", "=", "-", EnvPath>>,
     <<"[Install]">>,
     <<"WantedBy", "=", "default.target">> >>

\* A unit naming only an EnvironmentFile, with no [Install] section.
DefEnv ==
  << <<"EnvironmentFile", "=", EnvPath>> >>

\* The empty text ""
DefEmpty == <<>>

Defs == {DefFull, DefDash, DefEnv, DefEmpty}

DefPtr == {Nil} \cup {PtrTo(d) : d \in Defs}

----------------------------------------------------------------------------
(* The string functions getSystemdDependencies uses, on sequences of atoms *)

RECURSIVE TrimLeft(_)
TrimLeft(s) ==
  IF Len(s) > 0 /\ Head(s) = " " THEN TrimLeft(Tail(s)) ELSE s

RECURSIVE TrimRight(_)
TrimRight(s) ==
  IF Len(s) > 0 /\ s[Len(s)] = " " THEN TrimRight(SubSeq(s, 1, Len(s) - 1)) ELSE s

\* strings.TrimSpace
TrimSpace(s) == TrimRight(TrimLeft(s))

\* index of the first occurrence of sep in s, 0 when there is none
Index(s, sep) ==
  IF \E i \in 1..Len(s) : s[i] = sep
  THEN CHOOSE i \in 1..Len(s) : s[i] = sep /\ \A j \in 1..(i - 1) : s[j] # sep
  ELSE 0

\* strings.SplitN(s, sep, 2)
SplitN2(s, sep) ==
  LET i == Index(s, sep)
  IN IF i = 0 THEN <<s>> ELSE <<SubSeq(s, 1, i - 1), SubSeq(s, i + 1, Len(s))>>

\* LineDependencies comparing the key without trimming the blanks around it
LineDependenciesUntrimmed(rawLine) ==
  LET line == TrimSpace(rawLine)
      tokens == SplitN2(line, "=")
  IN IF Len(tokens) # 2 THEN <<>>
     ELSE LET k == tokens[1]
              v == TrimSpace(tokens[2])
          IN IF k = <<"EnvironmentFile">> THEN <<v>>
             ELSE IF k = <<"ExecStart">> THEN <<SplitN2(v, " ")[1]>>
             ELSE <<>>

\* The dependencies one line of the unit file contributes
LineDependencies(rawLine) ==
  LET line == TrimSpace(rawLine)
      tokens == SplitN2(line, "=")
  IN IF Len(tokens) # 2 THEN <<>>
     ELSE LET k == TrimSpace(tokens[1])
              v == TrimSpace(tokens[2])
          IN IF k = <<"EnvironmentFile">> THEN <<v>>
             ELSE IF k = <<"ExecStart">> THEN <<SplitN2(v, " ")[1]>>
             ELSE <<>>

RECURSIVE getSystemdDependencies(_)
getSystemdDependencies(definition) ==
  IF definition = <<>> THEN <<>>
  ELSE LineDependencies(Head(definition)) \o getSystemdDependencies(Tail(definition))

----------------------------------------------------------------------------
(* The Service task *)

Task(def, running, enabled, manageState, smartRestart) ==
  [Name |-> kubeletService, Definition |-> def, Running |-> running,
   Enabled |-> enabled, ManageState |-> manageState, SmartRestart |-> smartRestart]

\* every Service value a caller can construct
Tasks ==
  {Task(d, r, en, m, sr) : d \in DefPtr, r \in BoolPtr, en \in BoolPtr,
                           m \in BoolPtr, sr \in BoolPtr}

\* InitDefaults with Enabled defaulted before Running is
InitDefaultsEnabledFirst(s) ==
  LET s1 == IF s.Enabled = Nil THEN [s EXCEPT !.Enabled = s.Running] ELSE s
      s2 == IF s1.Running = Nil THEN [s1 EXCEPT !.Running = PtrTo(TRUE)] ELSE s1
      s3 == IF s2.SmartRestart = Nil THEN [s2 EXCEPT !.SmartRestart = PtrTo(TRUE)] ELSE s2
      s4 == IF s3.ManageState = Nil THEN [s3 EXCEPT !.ManageState = PtrTo(TRUE)] ELSE s3
  IN s4

InitDefaults(s) ==
  LET s1 == IF s.Running = Nil THEN [s EXCEPT !.Running = PtrTo(TRUE)] ELSE s
      s2 == IF s1.SmartRestart = Nil THEN [s1 EXCEPT !.SmartRestart = PtrTo(TRUE)] ELSE s1
      s3 == IF s2.ManageState = Nil THEN [s2 EXCEPT !.ManageState = PtrTo(TRUE)] ELSE s2
      s4 == IF s3.Enabled = Nil THEN [s3 EXCEPT !.Enabled = s3.Running] ELSE s3
  IN s4

----------------------------------------------------------------------------
(* The host: the unit file, the files the unit names, and what systemd     *)
(* reports about the service.                                              *)

\* modification time of a file that does not exist
NoFile == -1

\* the zero time.Time
ZeroTime == -1

\* the text systemd prints for the time t (one atom), and its parse
FormatTime(t) == <<ToString(t)>>

IsTimestamp(v) == \E t \in 0..(MaxTime + 1) : v = FormatTime(t)

\* time.Parse("Mon 2006-01-02 15:04:05 MST", v), defined where it succeeds
ParseTime(v) == CHOOSE t \in 0..(MaxTime + 1) : v = FormatTime(t)

\* a timestamp value time.Parse rejects
BadTimestamp == <<"n/a">>

WantedByValues ==
  { <<>>, <<"multi-user.target">>,
    <<"graphical.target", " ", "multi-user.target">>, <<"default.target">> }

\* output of "systemctl show --all <name>", one line per property
SystemctlShow(s) ==
  << <<"ActiveState", "=", s.active>>,
     <<"WantedBy", "=">> \o s.wantedBy,
     <<"ExecMainStartTimestamp", "=">> \o s.startedAt,
     <<>> >>

\* "systemctl show" taken for a command that starts the unit
ExecShowStarts(s) == [s EXCEPT !.active = "activating"]

\* the host after "systemctl show": the query changes nothing
ExecShow(s) == s

\* the host after os.ReadFile of the unit file
ReadFile(s) == s

\* getSystemdStatus after the command has succeeded: the property map
getSystemdStatus(s) ==
  LET output == SystemctlShow(s)
      kept == {i \in 1..Len(output) :
                 output[i] # <<>> /\ Len(SplitN2(output[i], "=")) = 2}
      key(i) == SplitN2(output[i], "=")[1]
      last(k) == CHOOSE i \in kept : key(i) = k /\ \A j \in kept : key(j) = k => j <= i
  IN [k \in {key(i) : i \in kept} |-> SplitN2(output[last(k)], "=")[2]]

\* properties[k] of a Go map: the empty string for a missing key
Property(properties, k) ==
  IF k \in DOMAIN properties THEN properties[k] ELSE <<>>

\* the target of the unit's WantedBy= line, which "systemctl enable" links
RECURSIVE InstallTarget(_)
InstallTarget(definition) ==
  IF definition = <<>> THEN <<>>
  ELSE LET tokens == SplitN2(TrimSpace(Head(definition)), "=")
       IN IF Len(tokens) = 2 /\ TrimSpace(tokens[1]) = <<"WantedBy">>
          THEN TrimSpace(tokens[2])
          ELSE InstallTarget(Tail(definition))

\* os.Stat(dependency) succeeds: the text is exactly the path of a file
StatOk(dependency, mtime) ==
  /\ Len(dependency) = 1
  /\ dependency[1] \in Paths
  /\ mtime[dependency[1]] # NoFile

\* the loop over dependencies of RenderLocal
RECURSIVE Newest(_, _, _)
Newest(dependencies, mtime, newest) ==
  IF dependencies = <<>> THEN newest
  ELSE LET dependency == Head(dependencies)
       IN IF ~StatOk(dependency, mtime)
          THEN Newest(Tail(dependencies), mtime, newest)
          ELSE LET modTime == mtime[dependency[1]]
               IN Newest(Tail(dependencies), mtime,
                         IF newest = ZeroTime \/ newest < modTime THEN modTime ELSE newest)

----------------------------------------------------------------------------
(* Find *)

FindFaults == {"none", "distro", "read", "show"}

\* Find that takes every non-empty WantedBy for an enabling target and every
\* ActiveState but inactive and failed for running
FindGuessing(task, s, fault) ==
  IF fault = "distro"
  THEN [actual |-> Nil, err |-> "unknown or unsupported distro", sys |-> s]
  ELSE IF fault = "read"
       THEN [actual |-> Nil, err |-> "Error reading systemd file", sys |-> s]
  ELSE IF s.unit = Nil
       THEN [actual |-> PtrTo(Task(Nil, PtrTo(FALSE), Nil, Nil, Nil)), err |-> "",
             sys |-> ReadFile(s)]
  ELSE IF fault = "show"
       THEN [actual |-> Nil, err |-> "error doing systemd show", sys |-> ReadFile(s)]
  ELSE LET properties == getSystemdStatus(ReadFile(s))
           activeState == Property(properties, <<"ActiveState">>)
           wantedBy == Property(properties, <<"WantedBy">>)
       IN [actual |-> PtrTo(Task(PtrTo(Deref(s.unit)),
                                 PtrTo(activeState \notin {<<"failed">>, <<"inactive">>}),
                                 PtrTo(wantedBy # <<>>),
                                 task.ManageState, task.SmartRestart)),
           err |-> "", sys |-> ExecShow(ReadFile(s))]

\* Find(e) on host s; fault names the call that fails, if any.  The result
\* carries the actual state (nil with an error), the error ("" for nil) and
\* the host as the calls left it.
Find(task, s, fault) ==
  IF fault = "distro"
  THEN [actual |-> Nil, err |-> "unknown or unsupported distro", sys |-> s]
  ELSE IF fault = "read"
       THEN [actual |-> Nil, err |-> "Error reading systemd file", sys |-> s]
  ELSE IF s.unit = Nil
       THEN [actual |-> PtrTo(Task(Nil, PtrTo(FALSE), Nil, Nil, Nil)), err |-> "",
             sys |-> ReadFile(s)]
  ELSE IF fault = "show"
       THEN [actual |-> Nil, err |-> "error doing systemd show", sys |-> ReadFile(s)]
  ELSE LET properties == getSystemdStatus(ReadFile(s))
           activeState == Property(properties, <<"ActiveState">>)
           wantedBy == Property(properties, <<"WantedBy">>)
           running == IF activeState = <<"active">> THEN PtrTo(TRUE)
                      ELSE IF activeState \in {<<"failed">>, <<"inactive">>} THEN PtrTo(FALSE)
                      ELSE PtrTo(FALSE)
           enabled == IF wantedBy = <<>> THEN PtrTo(FALSE)
                      ELSE IF wantedBy \in {<<"multi-user.target">>,
                                            <<"graphical.target", " ", "multi-user.target">>}
                           THEN PtrTo(TRUE)
                      ELSE PtrTo(FALSE)
       IN [actual |-> PtrTo(Task(PtrTo(Deref(s.unit)), running, enabled,
                                 task.ManageState, task.SmartRestart)),
           err |-> "", sys |-> ExecShow(ReadFile(s))]

----------------------------------------------------------------------------
(* The diff of actual against desired, and the executor's use of it *)

\* the zero-value Service: no field set
EmptyChanges == [Name |-> "", Definition |-> Nil, Running |-> Nil,
                 Enabled |-> Nil, ManageState |-> Nil, SmartRestart |-> Nil]

\* one pointer field of the Changes: unset when desired is unset or agrees
\* with actual, else the desired value
ChangedField(actualField, desiredField) ==
  IF desiredField # Nil /\ desiredField # actualField THEN desiredField ELSE Nil

\* the Changes of actual (a pointer, nil when nothing was found) against e
BuildChanges(actual, desired) ==
  LET act == IF actual = Nil THEN EmptyChanges ELSE Deref(actual)
  IN [Name |-> IF desired.Name # act.Name THEN desired.Name ELSE "",
      Definition |-> ChangedField(act.Definition, desired.Definition),
      Running |-> ChangedField(act.Running, desired.Running),
      Enabled |-> ChangedField(act.Enabled, desired.Enabled),
      ManageState |-> ChangedField(act.ManageState, desired.ManageState),
      SmartRestart |-> ChangedField(act.SmartRestart, desired.SmartRestart)]

\* Service.CheckChanges accepts every combination
CheckChanges(actual, desired, chg) == TRUE

----------------------------------------------------------------------------
(* RenderLocal *)

RenderFaults == {"none", "distro", "write", "reload", "show", "action", "enable"}

WriteCmd == [verb |-> "write", noBlock |-> FALSE]

ReloadCmd == [verb |-> "daemon-reload", noBlock |-> FALSE]

ShowCmd == [verb |-> "show", noBlock |-> FALSE]

\* "systemctl <action> <name> --no-block"
ActionCmd(action) == [verb |-> action, noBlock |-> TRUE]

\* "systemctl enable|disable <name>"
EnableCmd(verb) == [verb |-> verb, noBlock |-> FALSE]

\* fi.WriteFile(servicePath, definition): content and modification time
WriteFile(s, definition, t) ==
  [s EXCEPT !.unit = PtrTo(definition), !.mtime[UnitPath] = t]

\* systemd accepts the queued job: the unit enters the transient state
QueueJob(s, action) ==
  IF action = "restart" THEN [s EXCEPT !.active = "activating"]
  ELSE IF s.active \in {"active", "activating"} THEN [s EXCEPT !.active = "deactivating"]
  ELSE s

\* systemctl enable links the unit into its install target; disable unlinks
SetEnabled(s, verb) ==
  IF verb = "enable" THEN [s EXCEPT !.wantedBy = InstallTarget(Deref(s.unit))]
  ELSE [s EXCEPT !.wantedBy = <<>>]

\* lines 308-323: the path lookup and the action chosen from a Running change
RenderStart(e_, chg, s, fault) ==
  IF fault = "distro"
  THEN [sys |-> s, cmds |-> <<>>, err |-> "unknown or unsupported distro",
        action |-> "", smart |-> FALSE]
  ELSE [sys |-> s, cmds |-> <<>>, err |-> "",
        action |-> IF chg.Running # Nil /\ ValueOf(e_.ManageState)
                   THEN (IF ValueOf(e_.Running) THEN "restart" ELSE "stop")
                   ELSE "",
        smart |-> FALSE]

\* lines 325-338: write the unit file and reload systemd
WriteDefinition(st, e_, chg, t, fault) ==
  IF st.err # "" \/ chg.Definition = Nil THEN st
  ELSE IF fault = "write"
       THEN [st EXCEPT !.cmds = Append(@, WriteCmd),
                       !.err = "error writing systemd service file"]
  ELSE IF fault = "reload"
       THEN [st EXCEPT !.sys = WriteFile(@, Deref(e_.Definition), t),
                       !.cmds = @ \o <<WriteCmd, ReloadCmd>>,
                       !.err = "error doing systemd daemon-reload"]
  ELSE [st EXCEPT !.sys = WriteFile(@, Deref(e_.Definition), t),
                  !.cmds = @ \o <<WriteCmd, ReloadCmd>>]

\* the smart-restart decision taken without looking at the SmartRestart field
SmartRestartUnasked(st, a_, e_, fault) ==
  IF st.err # "" THEN st
  ELSE IF ~ValueOf(e_.ManageState) THEN st
  ELSE
    LET definition == IF ValueOfString(e_.Definition) = <<>> /\ a_ # Nil
                      THEN ValueOfString(Deref(a_).Definition)
                      ELSE ValueOfString(e_.Definition)
    IN IF ~(st.action = "" /\ ValueOf(e_.Running) /\ definition # <<>>) THEN st
       ELSE
         LET dependencies == Append(getSystemdDependencies(definition), <<UnitPath>>)
             newest == Newest(dependencies, st.sys.mtime, ZeroTime)
         IN IF newest = ZeroTime THEN st
            ELSE IF fault = "show"
                 THEN [st EXCEPT !.cmds = Append(@, ShowCmd),
                                 !.err = "error doing systemd show"]
            ELSE
              LET properties == getSystemdStatus(st.sys)
                  startedAt == Property(properties, <<"ExecMainStartTimestamp">>)
                  shown == [st EXCEPT !.cmds = Append(@, ShowCmd),
                                      !.sys = ExecShow(@)]
              IN IF startedAt = <<>> THEN shown
                 ELSE IF ~IsTimestamp(startedAt)
                      THEN [shown EXCEPT !.err = "unable to parse service ExecMainStartTimestamp"]
                 ELSE IF ParseTime(startedAt) < newest
                      THEN [shown EXCEPT !.action = "restart", !.smart = TRUE]
                 ELSE shown

\* the smart-restart decision taken over an action already chosen
SmartRestartOverAction(st, a_, e_, fault) ==
  IF st.err # "" THEN st
  ELSE IF ~(ValueOf(e_.ManageState) /\ ValueOf(e_.SmartRestart)) THEN st
  ELSE
    LET definition == IF ValueOfString(e_.Definition) = <<>> /\ a_ # Nil
                      THEN ValueOfString(Deref(a_).Definition)
                      ELSE ValueOfString(e_.Definition)
    IN IF definition = <<>> THEN st
       ELSE
         LET dependencies == Append(getSystemdDependencies(definition), <<UnitPath>>)
             newest == Newest(dependencies, st.sys.mtime, ZeroTime)
         IN IF newest = ZeroTime THEN st
            ELSE IF fault = "show"
                 THEN [st EXCEPT !.cmds = Append(@, ShowCmd),
                                 !.err = "error doing systemd show"]
            ELSE
              LET properties == getSystemdStatus(st.sys)
                  startedAt == Property(properties, <<"ExecMainStartTimestamp">>)
                  shown == [st EXCEPT !.cmds = Append(@, ShowCmd),
                                      !.sys = ExecShow(@)]
              IN IF startedAt = <<>> THEN shown
                 ELSE IF ~IsTimestamp(startedAt)
                      THEN [shown EXCEPT !.err = "unable to parse service ExecMainStartTimestamp"]
                 ELSE IF ParseTime(startedAt) < newest
                      THEN [shown EXCEPT !.action = "restart", !.smart = TRUE]
                 ELSE shown

\* lines 340-392: the smart-restart decision
SmartRestart(st, a_, e_, fault) ==
  IF st.err # "" THEN st
  ELSE IF ~(ValueOf(e_.ManageState) /\ ValueOf(e_.SmartRestart)) THEN st
  ELSE
    LET definition == IF ValueOfString(e_.Definition) = <<>> /\ a_ # Nil
                      THEN ValueOfString(Deref(a_).Definition)
                      ELSE ValueOfString(e_.Definition)
    IN IF ~(st.action = "" /\ ValueOf(e_.Running) /\ definition # <<>>) THEN st
       ELSE
         LET dependencies == Append(getSystemdDependencies(definition), <<UnitPath>>)
             newest == Newest(dependencies, st.sys.mtime, ZeroTime)
         IN IF newest = ZeroTime THEN st
            ELSE IF fault = "show"
                 THEN [st EXCEPT !.cmds = Append(@, ShowCmd),
                                 !.err = "error doing systemd show"]
            ELSE
              LET properties == getSystemdStatus(st.sys)
                  startedAt == Property(properties, <<"ExecMainStartTimestamp">>)
                  shown == [st EXCEPT !.cmds = Append(@, ShowCmd),
                                      !.sys = ExecShow(@)]
              IN IF startedAt = <<>> THEN shown
                 ELSE IF ~IsTimestamp(startedAt)
                      THEN [shown EXCEPT !.err = "unable to parse service ExecMainStartTimestamp"]
                 ELSE IF ParseTime(startedAt) < newest
                      THEN [shown EXCEPT !.action = "restart", !.smart = TRUE]
                 ELSE shown

\* lines 394-404: systemctl restart|stop --no-block
ApplyAction(st, e_, fault) ==
  IF st.err # "" THEN st
  ELSE IF st.action # "" /\ ValueOf(e_.ManageState)
       THEN IF fault = "action" \/ st.sys.unit = Nil
            THEN [st EXCEPT !.cmds = Append(@, ActionCmd(st.action)),
                            !.err = "error doing systemd action"]
            ELSE [st EXCEPT !.cmds = Append(@, ActionCmd(st.action)),
                            !.sys = QueueJob(@, st.action)]
  ELSE st

\* enable|disable applied whether or not Enabled is among the changes
ApplyEnabledAlways(st, e_, chg, fault) ==
  IF st.err # "" THEN st
  ELSE IF ValueOf(e_.ManageState)
       THEN LET verb == IF ValueOf(e_.Enabled) THEN "enable" ELSE "disable"
            IN IF fault = "enable" \/ st.sys.unit = Nil
               THEN [st EXCEPT !.cmds = Append(@, EnableCmd(verb)),
                               !.err = "error doing systemctl enable"]
               ELSE [st EXCEPT !.cmds = Append(@, EnableCmd(verb)),
                               !.sys = SetEnabled(@, verb)]
  ELSE st

\* enable|disable applied without asking ManageState
ApplyEnabledUnmanaged(st, e_, chg, fault) ==
  IF st.err # "" THEN st
  ELSE IF chg.Enabled # Nil
       THEN LET verb == IF ValueOf(e_.Enabled) THEN "enable" ELSE "disable"
            IN IF fault = "enable" \/ st.sys.unit = Nil
               THEN [st EXCEPT !.cmds = Append(@, EnableCmd(verb)),
                               !.err = "error doing systemctl enable"]
               ELSE [st EXCEPT !.cmds = Append(@, EnableCmd(verb)),
                               !.sys = SetEnabled(@, verb)]
  ELSE st

\* enable|disable applied although an earlier step has failed
ApplyEnabledAfterFailure(st, e_, chg, fault) ==
  IF chg.Enabled # Nil /\ ValueOf(e_.ManageState)
  THEN LET verb == IF ValueOf(e_.Enabled) THEN "enable" ELSE "disable"
       IN IF fault = "enable" \/ st.sys.unit = Nil
          THEN [st EXCEPT !.cmds = Append(@, EnableCmd(verb)),
                          !.err = "error doing systemctl enable"]
          ELSE [st EXCEPT !.cmds = Append(@, EnableCmd(verb)),
                          !.sys = SetEnabled(@, verb)]
  ELSE st

\* enable and disable taken for each other
ApplyEnabledSwapped(st, e_, chg, fault) ==
  IF st.err # "" THEN st
  ELSE IF chg.Enabled # Nil /\ ValueOf(e_.ManageState)
       THEN LET verb == IF ValueOf(e_.Enabled) THEN "disable" ELSE "enable"
            IN IF fault = "enable" \/ st.sys.unit = Nil
               THEN [st EXCEPT !.cmds = Append(@, EnableCmd(verb)),
                               !.err = "error doing systemctl enable"]
               ELSE [st EXCEPT !.cmds = Append(@, EnableCmd(verb)),
                               !.sys = SetEnabled(@, verb)]
  ELSE st

\* the enable or disable issued twice
ApplyEnabledTwice(st, e_, chg, fault) ==
  IF st.err # "" THEN st
  ELSE IF chg.Enabled # Nil /\ ValueOf(e_.ManageState)
       THEN LET verb == IF ValueOf(e_.Enabled) THEN "enable" ELSE "disable"
            IN IF fault = "enable" \/ st.sys.unit = Nil
               THEN [st EXCEPT !.cmds = Append(@, EnableCmd(verb)),
                               !.err = "error doing systemctl enable"]
               ELSE [st EXCEPT !.cmds = Append(Append(@, EnableCmd(verb)), EnableCmd(verb)),
                               !.sys = SetEnabled(@, verb)]
  ELSE st

\* lines 406-421: systemctl enable|disable
ApplyEnabled(st, e_, chg, fault) ==
  IF st.err # "" THEN st
  ELSE IF chg.Enabled # Nil /\ ValueOf(e_.ManageState)
       THEN LET verb == IF ValueOf(e_.Enabled) THEN "enable" ELSE "disable"
            IN IF fault = "enable" \/ st.sys.unit = Nil
               THEN [st EXCEPT !.cmds = Append(@, EnableCmd(verb)),
                               !.err = "error doing systemctl enable"]
               ELSE [st EXCEPT !.cmds = Append(@, EnableCmd(verb)),
                               !.sys = SetEnabled(@, verb)]
  ELSE st

\* RenderLocal(_, a, e, changes) on host s at time t; fault names the call
\* that fails, if any.  The result carries the host as left behind, the
\* commands issued in order, the error ("" for nil), and the action chosen.
RenderLocal(a_, e_, chg, s, t, fault) ==
  ApplyEnabled(
    ApplyAction(
      SmartRestart(
        WriteDefinition(RenderStart(e_, chg, s, fault), e_, chg, t, fault),
        a_, e_, fault),
      e_, fault),
    e_, chg, fault)

----------------------------------------------------------------------------
(* States *)

\* the Service values a pass works on: InitDefaults has been applied
DefaultedTasks == {InitDefaults(s) : s \in Tasks}

Host(unit, active, wantedBy, startedAt, unitTime, envTime, binTime) ==
  [unit |-> unit, active |-> active, wantedBy |-> wantedBy, startedAt |-> startedAt,
   mtime |-> [p \in Paths |-> IF p = UnitPath THEN unitTime
                              ELSE IF p = EnvPath THEN envTime ELSE binTime]]

\* what systemd reports for a service: active since a start time, or not
\* running
RunStates(startTimes) ==
  {<<"active", FormatTime(t)>> : t \in startTimes}
    \cup {<<"inactive", <<>>>>, <<"failed", <<>>>>}

\* ... or active with a start timestamp that is missing or does not parse
OddRunStates == {<<"active", <<>>>>, <<"active", BadTimestamp>>}

\* hosts without the unit file, and hosts with one
Hosts(defs, runStates, wantedBys, unitTimes, envTimes) ==
  {Host(Nil, "inactive", <<>>, <<>>, NoFile, et, 0) : et \in envTimes}
    \cup {Host(PtrTo(d), rs[1], w, rs[2], ut, et, 0) :
            d \in defs, rs \in runStates, w \in wantedBys,
            ut \in unitTimes, et \in envTimes}

NoResult == [called |-> FALSE, pass |-> 0, fault |-> "none", err |-> "",
             cmds |-> <<>>, action |-> "", smart |-> FALSE]

\* what the last RenderLocal returned, in which pass, and the call that was
\* made to fail ("none" also when RenderLocal never made that call)
Result(r, pass, fault) ==
  [called |-> TRUE, pass |-> pass, fault |-> fault, err |-> r.err, cmds |-> r.cmds,
   action |-> r.action, smart |-> r.smart]

\* the Service task's variables while another part of the program is examined
ServiceIdle ==
  /\ e0 = Task(Nil, Nil, Nil, Nil, Nil)
  /\ e = e0
  /\ nDefaults = 0
  /\ sys = Host(Nil, "inactive", <<>>, <<>>, NoFile, NoFile, NoFile)
  /\ now = 0
  /\ pc = "idle"
  /\ a = Nil
  /\ findErr = ""
  /\ changes = EmptyChanges
  /\ res = NoResult
  /\ passes = 1

NoDependencyCall ==
  /\ tasks = <<>>
  /\ receiver = [type |-> "Service", Name |-> ""]
  /\ deps = <<>>
  /\ nCalls = 0

NoInstallTarget == target = Nil

NoPass ==
  /\ graph = <<>>
  /\ order = <<>>
  /\ resolveErr = {}
  /\ state = <<>>
  /\ failAt = <<>>
  /\ passResult = "none"

NoVerification ==
  /\ request = <<>>
  /\ verify = <<>>
  /\ instance = <<>>
  /\ sans = <<>>

NoAssignment ==
  /\ cluster0 = <<>>
  /\ cluster = <<>>
  /\ assignment = <<>>

NoEnrollment ==
  /\ options = <<>>
  /\ world = <<>>
  /\ effects = <<>>
  /\ enroll = <<>>

NoKubecfg ==
  /\ testCase = 0
  /\ kubecfg = <<>>
  /\ reported = <<>>

\* the parts of the program a specification does not exercise stay idle
IdleExcept(active) ==
  /\ "service" \in active \/ ServiceIdle
  /\ "dependency" \in active \/ NoDependencyCall
  /\ "install" \in active \/ NoInstallTarget
  /\ "executor" \in active \/ NoPass
  /\ "verifier" \in active \/ NoVerification
  /\ "assignment" \in active \/ NoAssignment
  /\ "enroll" \in active \/ NoEnrollment
  /\ "kubecfg" \in active \/ NoKubecfg

\* ... and a step of one part leaves the variables of the others alone
Frame(active) ==
  /\ IF "service" \in active THEN TRUE ELSE UNCHANGED serviceVars
  /\ IF "dependency" \in active THEN TRUE ELSE UNCHANGED dependencyVars
  /\ IF "install" \in active THEN TRUE ELSE UNCHANGED installVars
  /\ IF "executor" \in active THEN TRUE ELSE UNCHANGED executorVars
  /\ IF "verifier" \in active THEN TRUE ELSE UNCHANGED verifierVars
  /\ IF "assignment" \in active THEN TRUE ELSE UNCHANGED assignmentVars
  /\ IF "enroll" \in active THEN TRUE ELSE UNCHANGED enrollVars
  /\ IF "kubecfg" \in active THEN TRUE ELSE UNCHANGED kubecfgVars

RestIdle == IdleExcept({"service"})

----------------------------------------------------------------------------
(* The convergence of one Service task: passes of Find, diff and Run, with *)
(* the host changing between them.                                         *)

Init ==
  /\ e0 \in {t \in DefaultedTasks : t.Definition \in {Nil, PtrTo(DefFull), PtrTo(DefDash)}}
  /\ e = e0
  /\ nDefaults = 1
  /\ sys \in Hosts({DefFull, DefEnv}, RunStates({0}), {<<>>, <<"multi-user.target">>}, {0}, {0})
  /\ now = 1
  /\ pc = "pending"
  /\ a = Nil
  /\ findErr = ""
  /\ changes = EmptyChanges
  /\ res = NoResult
  /\ passes = 1
  /\ RestIdle

\* Service.Find, called by the executor (and again, while nothing else ran)
FindStep ==
  /\ pc \in {"pending", "found"}
  /\ \E fault \in FindFaults :
       LET r == Find(e, sys, fault)
       IN /\ a' = r.actual
          /\ findErr' = r.err
          /\ sys' = r.sys
          /\ pc' = IF r.err = "" THEN "found" ELSE "failed"
  /\ UNCHANGED <<e0, e, nDefaults, now, changes, res, passes>>
  /\ UNCHANGED restVars

\* the executor diffs actual against desired; no change: the task is done
DiffStep ==
  /\ pc = "found"
  /\ changes' = BuildChanges(a, e)
  /\ CheckChanges(a, e, changes')
  /\ pc' = IF changes' = EmptyChanges THEN "done" ELSE "diffed"
  /\ UNCHANGED <<e0, e, nDefaults, sys, now, a, findErr, res, passes>>
  /\ UNCHANGED restVars

\* Service.Run: RenderLocal with the changes of the diff
RunStep ==
  /\ pc = "diffed"
  /\ \E fault \in RenderFaults :
       LET r == RenderLocal(a, e, changes, sys, now, fault)
           hit == r # RenderLocal(a, e, changes, sys, now, "none")
       IN /\ sys' = r.sys
          /\ res' = Result(r, passes, IF hit THEN fault ELSE "none")
          /\ pc' = IF r.err = "" THEN "done" ELSE "failed"
  /\ UNCHANGED <<e0, e, nDefaults, now, a, findErr, changes, passes>>
  /\ UNCHANGED restVars

\* the next convergence pass
NextPass ==
  /\ pc \in {"done", "failed"}
  /\ passes < MaxPasses
  /\ passes' = passes + 1
  /\ pc' = "pending"
  /\ a' = Nil
  /\ findErr' = ""
  /\ changes' = EmptyChanges
  /\ UNCHANGED <<e0, e, nDefaults, sys, now, res>>
  /\ UNCHANGED restVars

\* the host changes between the passes, not while the task is worked on
BetweenPasses == pc \in {"done", "failed"}

\* time passes
Tick ==
  /\ BetweenPasses
  /\ now < MaxTime
  /\ now' = now + 1
  /\ UNCHANGED <<e0, e, nDefaults, sys, pc, a, findErr, changes, res, passes>>
  /\ UNCHANGED restVars

\* another task rewrites a file the unit names
Touch ==
  /\ BetweenPasses
  /\ sys.mtime[EnvPath] # now
  /\ sys' = [sys EXCEPT !.mtime[EnvPath] = now]
  /\ UNCHANGED <<e0, e, nDefaults, now, pc, a, findErr, changes, res, passes>>
  /\ UNCHANGED restVars

\* systemd carries out the queued job: a start succeeds or fails, a stop ends
JobComplete ==
  /\ BetweenPasses
  /\ \/ /\ sys.active = "activating"
        /\ \/ sys' = [sys EXCEPT !.active = "active", !.startedAt = FormatTime(now)]
           \/ sys' = [sys EXCEPT !.active = "failed"]
     \/ /\ sys.active = "deactivating"
        /\ sys' = [sys EXCEPT !.active = "inactive"]
  /\ UNCHANGED <<e0, e, nDefaults, now, pc, a, findErr, changes, res, passes>>
  /\ UNCHANGED restVars

Next == FindStep \/ DiffStep \/ RunStep \/ NextPass \/ Tick \/ Touch \/ JobComplete

Spec == Init /\ [][Next]_vars

TypeOK ==
  /\ e \in Tasks
  /\ now \in 0..MaxTime
  /\ passes \in 1..MaxPasses

----------------------------------------------------------------------------
(* Find on every kind of host *)

\* hosts in addition in a transient or unknown ActiveState
FindHosts ==
  Hosts(Defs, RunStates({0}) \cup OddRunStates, WantedByValues, {0}, {0})
    \cup {Host(PtrTo(d), act, w, <<>>, 0, 0, 0) :
            d \in Defs, act \in {"activating", "deactivating", "reloading"},
            w \in WantedByValues}

InitFind ==
  /\ e0 \in DefaultedTasks
  /\ e = e0
  /\ nDefaults = 1
  /\ sys \in FindHosts
  /\ now = 1
  /\ pc = "pending"
  /\ a = Nil
  /\ findErr = ""
  /\ changes = EmptyChanges
  /\ res = NoResult
  /\ passes = 1
  /\ RestIdle

SpecFind == InitFind /\ [][FindStep]_vars

----------------------------------------------------------------------------
(* RenderLocal called directly, with any Changes that name fields of e *)

ChangesOf(task) ==
  {[EmptyChanges EXCEPT !.Definition = d, !.Running = r, !.Enabled = en] :
     d \in {Nil, task.Definition}, r \in {Nil, task.Running},
     en \in {Nil, task.Enabled}}

InitRender ==
  /\ e0 \in DefaultedTasks
  /\ e = e0
  /\ nDefaults = 1
  /\ sys \in Hosts({DefFull, DefDash, DefEnv},
                  (RunStates({0, 1}) \cup {<<"active", BadTimestamp>>}) \ {<<"failed", <<>>>>},
                  {<<>>}, {0, 1}, {NoFile, 0, 1})
  /\ now = MaxTime
  /\ pc = "call"
  /\ a = Nil
  /\ findErr = ""
  /\ changes = EmptyChanges
  /\ res = NoResult
  /\ passes = 1
  /\ RestIdle

\* a is nil or what Find reports for the host
RenderCall ==
  /\ pc = "call"
  /\ \E aa \in {Nil, Find(e, sys, "none").actual}, chg \in ChangesOf(e),
        fault \in RenderFaults :
       LET r == RenderLocal(aa, e, chg, sys, now, fault)
           hit == r # RenderLocal(aa, e, chg, sys, now, "none")
       IN /\ a' = aa
          /\ changes' = chg
          /\ sys' = r.sys
          /\ res' = Result(r, passes, IF hit THEN fault ELSE "none")
          /\ pc' = "returned"
  /\ UNCHANGED <<e0, e, nDefaults, now, findErr, passes>>
  /\ UNCHANGED restVars

SpecRender == InitRender /\ [][RenderCall]_vars

----------------------------------------------------------------------------
(* InitDefaults on every Service value a caller can construct *)

InitDefaultsSpec ==
  /\ e0 \in Tasks
  /\ e = e0
  /\ nDefaults = 0
  /\ sys = Host(Nil, "inactive", <<>>, <<>>, NoFile, NoFile, 0)
  /\ now = 1
  /\ pc = "new"
  /\ a = Nil
  /\ findErr = ""
  /\ changes = EmptyChanges
  /\ res = NoResult
  /\ passes = 1
  /\ RestIdle

\* s.InitDefaults(), which callers may apply more than once
InitDefaultsStep ==
  /\ pc = "new"
  /\ nDefaults < MaxDefaults
  /\ e' = InitDefaults(e)
  /\ nDefaults' = nDefaults + 1
  /\ UNCHANGED <<e0, sys, now, pc, a, findErr, changes, res, passes>>
  /\ UNCHANGED restVars

SpecDefaults == InitDefaultsSpec /\ [][InitDefaultsStep]_vars

----------------------------------------------------------------------------
(* Properties of InitDefaults *)

\* C10: after InitDefaults, applied once or twice, Running, SmartRestart and
\* ManageState are true where they were unset, Enabled has the value of
\* Running where it was unset, and every field that was set keeps its value.
C10_InitDefaults ==
  nDefaults >= 1 =>
    /\ e.Name = e0.Name
    /\ e.Definition = e0.Definition
    /\ e.Running = (IF e0.Running = Nil THEN PtrTo(TRUE) ELSE e0.Running)
    /\ e.SmartRestart = (IF e0.SmartRestart = Nil THEN PtrTo(TRUE) ELSE e0.SmartRestart)
    /\ e.ManageState = (IF e0.ManageState = Nil THEN PtrTo(TRUE) ELSE e0.ManageState)
    /\ e.Enabled = (IF e0.Enabled = Nil THEN e.Running ELSE e0.Enabled)

\* InitDefaults was applied twice to a task with Running and Enabled unset and
\* ManageState explicitly false
C10_Witness ==
  /\ nDefaults = 2
  /\ e0.Running = Nil /\ e0.Enabled = Nil /\ e0.ManageState = PtrTo(FALSE)
  /\ e.Enabled = PtrTo(TRUE) /\ e.ManageState = PtrTo(FALSE)

----------------------------------------------------------------------------
(* Properties of Find *)

RecognizedTargets ==
  { <<"multi-user.target">>, <<"graphical.target", " ", "multi-user.target">> }

\* C8: Find without an error returns an actual state: with the unit file
\* absent Running=false and Definition unset; with it present Definition =
\* the file content, Running=true exactly for ActiveState "active" and
\* Enabled=true exactly for a recognized WantedBy target.  Find with an error
\* (distro lookup, read failure, status query) returns no actual state.
C8_FindMapping ==
  pc \in {"found", "failed"} =>
    /\ (pc = "failed") = (findErr # "")
    /\ findErr # "" => a = Nil
    /\ findErr = "" =>
         /\ a # Nil
         /\ sys.unit = Nil =>
              /\ Deref(a).Definition = Nil
              /\ Deref(a).Running = PtrTo(FALSE)
         /\ sys.unit # Nil =>
              /\ Deref(a).Definition = sys.unit
              /\ Deref(a).Running = PtrTo(sys.active = "active")
              /\ Deref(a).Enabled = PtrTo(sys.wantedBy \in RecognizedTargets)

\* Find met a unit in a transient state, wanted by an unrecognized target
C8_Witness ==
  /\ pc = "found"
  /\ sys.unit # Nil
  /\ sys.active = "activating"
  /\ sys.wantedBy = <<"default.target">>
  /\ a # Nil
  /\ Deref(a).Running = PtrTo(FALSE)
  /\ Deref(a).Enabled = PtrTo(FALSE)

----------------------------------------------------------------------------
(* Properties of RenderLocal called directly *)

Verbs(cmds) == {cmds[i].verb : i \in DOMAIN cmds}

RunStateVerbs == {"restart", "stop"}

EnablementVerbs == {"enable", "disable"}

\* the call has returned
Returned == pc = "returned"

\* the step is the call of RenderLocal
Calls == pc = "call" /\ pc' = "returned"

\* C2 as claimed: RenderLocal with an empty Changes, no call of it made to
\* fail, issues no command that changes the host and returns success.
C2_EmptyChangesNoOp ==
  (Returned /\ changes = EmptyChanges /\ res.fault = "none") =>
    /\ res.err = ""
    /\ Verbs(res.cmds) \subseteq {"show"}

\* C2 as amended: RenderLocal with an empty Changes writes no unit file and
\* issues no daemon-reload, stop, enable or disable; the one command changing
\* the host it can issue is the restart the smart-restart heuristic schedules
\* (ManageState, SmartRestart and desired Running all true); without that
\* restart the host is left as it was; and it fails only in the distro lookup,
\* in the heuristic's status query or timestamp parse, or in that restart.
C2_EmptyChanges ==
  [][ (Calls /\ changes' = EmptyChanges) =>
        /\ Verbs(res'.cmds) \subseteq {"show", "restart"}
        /\ "restart" \in Verbs(res'.cmds) =>
             /\ res'.smart
             /\ ValueOf(e.ManageState) /\ ValueOf(e.SmartRestart) /\ ValueOf(e.Running)
        /\ ("restart" \notin Verbs(res'.cmds) \/ res'.err # "") => sys' = sys
        /\ res'.err # "" =>
             \/ res'.fault \in {"distro", "show", "action"}
             \/ /\ res'.fault = "none"
                /\ \/ ~IsTimestamp(sys.startedAt)
                   \/ sys.unit = Nil /\ res'.smart ]_vars

\* RenderLocal with an empty Changes restarted the service and succeeded
C2_Witness ==
  /\ Returned
  /\ changes = EmptyChanges
  /\ res.smart
  /\ res.err = ""
  /\ sys.active = "activating"

\* C3: with the desired ManageState false RenderLocal issues no restart, stop,
\* enable or disable and leaves what systemd reports as the service's
\* run-state and enablement as it was, whatever the Changes and the files.
C3_ManageStateFalse ==
  [][ (Calls /\ ~ValueOf(e.ManageState)) =>
        /\ Verbs(res'.cmds) \cap (RunStateVerbs \cup EnablementVerbs) = {}
        /\ sys'.active = sys.active
        /\ sys'.wantedBy = sys.wantedBy
        /\ sys'.startedAt = sys.startedAt ]_vars

\* RenderLocal has succeeded for a task with ManageState false whose
\* Definition, Running and Enabled had all changed and whose unit file, just
\* written, is newer than the service
C3_Witness ==
  /\ Returned
  /\ e.ManageState = PtrTo(FALSE)
  /\ e.SmartRestart = PtrTo(TRUE)
  /\ changes.Definition # Nil /\ changes.Running # Nil /\ changes.Enabled # Nil
  /\ res.err = ""
  /\ Verbs(res.cmds) = {"write", "daemon-reload"}

\* place of a command in the order of RenderLocal's steps
Rank(verb) ==
  IF verb = "write" THEN 1
  ELSE IF verb = "daemon-reload" THEN 2
  ELSE IF verb = "show" THEN 3
  ELSE IF verb \in RunStateVerbs THEN 4
  ELSE 5

\* the commands whose failure a fault stands for
FaultVerbs(fault) ==
  IF fault = "write" THEN {"write"}
  ELSE IF fault = "reload" THEN {"daemon-reload"}
  ELSE IF fault = "show" THEN {"show"}
  ELSE IF fault = "action" THEN RunStateVerbs
  ELSE IF fault = "enable" THEN EnablementVerbs
  ELSE {}

\* C4: the commands of one RenderLocal come in the order write, daemon-reload,
\* status query of the smart-restart decision, restart|stop (--no-block),
\* enable|disable; the unit file is written and systemd reloaded exactly when
\* Definition changed; enable|disable is issued only when Enabled changed; and
\* the command that fails is the last one issued and RenderLocal returns an
\* error.
C4_StepOrder ==
  Returned =>
    LET cmds == res.cmds
    IN /\ \A i, j \in DOMAIN cmds : i < j => Rank(cmds[i].verb) < Rank(cmds[j].verb)
       /\ \A i \in DOMAIN cmds : cmds[i].noBlock = (cmds[i].verb \in RunStateVerbs)
       /\ ("write" \in Verbs(cmds)) = (changes.Definition # Nil /\ res.fault # "distro")
       /\ ("daemon-reload" \in Verbs(cmds)) =
            (changes.Definition # Nil /\ res.fault \notin {"distro", "write"})
       /\ Verbs(cmds) \cap EnablementVerbs # {} => changes.Enabled # Nil
       /\ res.fault = "distro" => cmds = <<>> /\ res.err # ""
       /\ res.fault \notin {"none", "distro"} =>
            /\ res.err # ""
            /\ cmds # <<>>
            /\ cmds[Len(cmds)].verb \in FaultVerbs(res.fault)
       /\ (res.fault = "none" /\ res.err # "") =>
            /\ cmds # <<>>
            /\ cmds[Len(cmds)].verb \in {"show"} \cup RunStateVerbs \cup EnablementVerbs

\* every step ran: write, reload, the status query, the restart it led to,
\* and enable
C4_Witness ==
  /\ Returned
  /\ res.err = ""
  /\ Len(res.cmds) = 5
  /\ res.cmds[4] = ActionCmd("restart")
  /\ res.cmds[5] = EnableCmd("enable")

\* the files RenderLocal is to look at for each unit text: its EnvironmentFile
\* and the program of its ExecStart, where given as plain paths, and the unit
\* file itself
ExpectedDependencies(definition) ==
  IF definition = DefFull THEN {EnvPath, BinPath, UnitPath}
  ELSE IF definition = DefEnv THEN {EnvPath, UnitPath}
  ELSE {UnitPath}

\* the unit text the smart-restart decision reads: the desired Definition, or
\* the one found when the desired one is unset or empty
DecisionText ==
  IF ValueOfString(e.Definition) = <<>> /\ a # Nil
  THEN ValueOfString(Deref(a).Definition)
  ELSE ValueOfString(e.Definition)

\* the smart-restart decision was reached and not made to fail
SmartCase ==
  /\ Returned
  /\ ValueOf(e.ManageState) /\ ValueOf(e.SmartRestart) /\ ValueOf(e.Running)
  /\ changes.Running = Nil
  /\ res.fault \notin {"distro", "write", "reload", "show"}
  /\ IsTimestamp(sys.startedAt)

NotBlank(atom) == atom # " "

\* the text has the line EnvironmentFile=<the path of the environment file>
NamesEnvironmentFile(definition) ==
  \E i \in DOMAIN definition :
     SelectSeq(definition[i], NotBlank) = <<"EnvironmentFile", "=", EnvPath>>

\* C5 as claimed: with the unit file on the host, which is the text the
\* decision reads, naming by its path an EnvironmentFile that exists, a
\* restart is requested if that file is newer than the recorded start, and
\* none if it is older.
C5_EnvironmentFileDecides ==
  (/\ SmartCase
   /\ sys.unit # Nil
   /\ DecisionText = ValueOfString(sys.unit)
   /\ NamesEnvironmentFile(ValueOfString(sys.unit))
   /\ sys.mtime[EnvPath] # NoFile) =>
     /\ sys.mtime[EnvPath] > ParseTime(sys.startedAt) => res.action = "restart"
     /\ sys.mtime[EnvPath] < ParseTime(sys.startedAt) => res.action # "restart"

\* C5 as amended: the heuristic requests a restart exactly when one of the
\* files it can stat - an EnvironmentFile value or the first word of
\* ExecStart taken literally as a path, or the unit file itself - was modified
\* after the recorded start time.
C5_SmartRestartDecision ==
  (SmartCase /\ DecisionText # <<>>) =>
    (res.smart =
       \E p \in ExpectedDependencies(DecisionText) :
          /\ sys.mtime[p] # NoFile
          /\ sys.mtime[p] > ParseTime(sys.startedAt))

\* only the EnvironmentFile, written with blanks around "=", is newer than the
\* service, and the restart was requested
C5_Witness ==
  /\ SmartCase
  /\ DecisionText = DefFull
  /\ sys.mtime[EnvPath] > ParseTime(sys.startedAt)
  /\ sys.mtime[UnitPath] <= ParseTime(sys.startedAt)
  /\ sys.mtime[BinPath] <= ParseTime(sys.startedAt)
  /\ res.smart
  /\ ActionCmd("restart") \in {res.cmds[i] : i \in DOMAIN res.cmds}

\* C6: the heuristic schedules a restart only with ManageState and
\* SmartRestart both true and with no restart or stop chosen from a Running
\* change.
C6_SmartRestartGuard ==
  (Returned /\ res.smart) =>
    /\ ValueOf(e.ManageState)
    /\ ValueOf(e.SmartRestart)
    /\ changes.Running = Nil

\* the heuristic scheduled a restart in a Run that also wrote the unit file
\* and enabled the service
C6_Witness ==
  /\ Returned
  /\ res.smart
  /\ changes.Definition # Nil
  /\ changes.Enabled # Nil
  /\ res.err = ""

----------------------------------------------------------------------------
(* Properties of the convergence passes *)

\* Run has returned in this pass
RunReturned == pc \in {"done", "failed"} /\ res.called /\ res.pass = passes

\* what Find reported differs from the desired state in Enabled alone
OnlyEnabledDiffers ==
  /\ a # Nil
  /\ Deref(a).Name = e.Name
  /\ e.Definition \in {Nil, Deref(a).Definition}
  /\ Deref(a).Running = e.Running
  /\ Deref(a).Enabled # e.Enabled
  /\ Deref(a).ManageState = e.ManageState
  /\ Deref(a).SmartRestart = e.SmartRestart

\* the commands of the sequence with a verb of the set
Issued(cmds, verbs) == SelectSeq(cmds, LAMBDA c : c.verb \in verbs)

\* C7 as claimed, for a managed service: when actual and desired differ in
\* Enabled alone, the Changes have only Enabled set and a Run that succeeds
\* issues exactly one of restart, stop, enable and disable, the enable or
\* disable.
C7_EnabledOnlyOneAction ==
  (RunReturned /\ OnlyEnabledDiffers /\ ValueOf(e.ManageState) /\ res.err = "") =>
    /\ changes = [EmptyChanges EXCEPT !.Enabled = e.Enabled]
    /\ Len(Issued(res.cmds, RunStateVerbs \cup EnablementVerbs)) = 1
    /\ Len(Issued(res.cmds, EnablementVerbs)) = 1

\* C7 as amended: when actual and desired differ in Enabled alone, the Changes
\* have only Enabled set; Run writes no unit file and issues no daemon-reload
\* and no stop; it issues a restart only when the smart-restart heuristic
\* schedules one, and that restart comes first; a Run that succeeds issues the
\* enable (desired Enabled true) or disable (false) exactly once with
\* ManageState true, and neither with ManageState false.
C7_EnabledOnly ==
  (RunReturned /\ OnlyEnabledDiffers) =>
    /\ changes = [EmptyChanges EXCEPT !.Enabled = e.Enabled]
    /\ Verbs(res.cmds) \cap {"write", "daemon-reload", "stop"} = {}
    /\ Issued(res.cmds, {"restart"}) = (IF res.smart THEN <<ActionCmd("restart")>> ELSE <<>>)
    /\ res.smart => ValueOf(e.SmartRestart) /\ ValueOf(e.Running) /\ ValueOf(e.ManageState)
    /\ res.err = "" =>
         Issued(res.cmds, RunStateVerbs \cup EnablementVerbs)
           = Issued(res.cmds, {"restart"})
               \o (IF ValueOf(e.ManageState)
                   THEN <<EnableCmd(IF ValueOf(e.Enabled) THEN "enable" ELSE "disable")>>
                   ELSE <<>>)

\* a Run for a change of Enabled alone issued the enable and nothing else,
\* and the service is enabled
C7_Witness ==
  /\ RunReturned
  /\ OnlyEnabledDiffers
  /\ res.err = ""
  /\ res.cmds = <<ShowCmd, EnableCmd("enable")>>
  /\ sys.wantedBy = <<"multi-user.target">>

\* the pass after one in which Run returned without error has found and
\* diffed
AfterRun ==
  /\ pc \in {"diffed", "done"}
  /\ res.called
  /\ res.err = ""
  /\ passes = res.pass + 1

\* C1 as claimed: after a Run that returned without error the next pass finds
\* no Definition, Running or Enabled change.
C1_FixedPoint ==
  AfterRun =>
    /\ changes.Definition = Nil
    /\ changes.Running = Nil
    /\ changes.Enabled = Nil

\* C1 as amended: after a Run that returned without error the next pass finds
\* no Definition change; with ManageState true it finds no Running change if
\* the desired Running is false or systemd reports the service active (the
\* queued start has completed), and no Enabled change if the desired Enabled
\* is false or the unit file installs into multi-user.target; with these
\* conditions met for both, the Changes are empty.
C1_FixedPointManaged ==
  LET runningSettled == ~ValueOf(e.Running) \/ sys.active = "active"
      enabledSettled == \/ ~ValueOf(e.Enabled)
                        \/ /\ sys.unit # Nil
                           /\ InstallTarget(Deref(sys.unit)) \in RecognizedTargets
  IN AfterRun =>
       /\ changes.Definition = Nil
       /\ (ValueOf(e.ManageState) /\ runningSettled) => changes.Running = Nil
       /\ (ValueOf(e.ManageState) /\ enabledSettled) => changes.Enabled = Nil
       /\ (ValueOf(e.ManageState) /\ runningSettled /\ enabledSettled) =>
            changes = EmptyChanges /\ pc = "done"

\* a Run wrote the unit file, restarted and enabled the service, the start
\* completed, and the next pass has nothing to change
C1_Witness ==
  /\ AfterRun
  /\ {"write", "restart", "enable"} \subseteq Verbs(res.cmds)
  /\ changes = EmptyChanges
  /\ pc = "done"

----------------------------------------------------------------------------
(* The action of a Running change *)

\* the call was made with a Running change for a managed service, and got
\* past the lookup of the systemd directory (lines 308-311)
RunningChanged ==
  /\ Returned /\ changes.Running # Nil /\ ValueOf(e.ManageState)
  /\ res.fault # "distro"

\* C24: with Running among the changes and ManageState true RenderLocal
\* chooses restart if the desired Running is true and stop if it is false;
\* any Run issues at most one restart or stop, and that is the action
\* chosen; a Run that chose from a Running change and succeeds issues
\* exactly that one; and when stop was chosen the smart-restart heuristic
\* schedules nothing and no restart is issued.
C24_OneActionPerRun ==
  /\ Returned =>
       /\ Len(Issued(res.cmds, RunStateVerbs)) <= 1
       /\ Verbs(res.cmds) \cap RunStateVerbs \subseteq {res.action}
  /\ RunningChanged =>
       /\ res.action = (IF ValueOf(e.Running) THEN "restart" ELSE "stop")
       /\ res.err = "" => Issued(res.cmds, RunStateVerbs) = <<ActionCmd(res.action)>>
       /\ ~ValueOf(e.Running) => (~res.smart /\ "restart" \notin Verbs(res.cmds))

\* a stop was issued, and nothing else, for a service with SmartRestart
\* that had started before its unit file was last written
C24_Witness ==
  /\ RunningChanged
  /\ ~ValueOf(e.Running)
  /\ ValueOf(e.SmartRestart)
  /\ changes.Definition = Nil
  /\ IsTimestamp(sys.startedAt)
  /\ sys.mtime[UnitPath] > ParseTime(sys.startedAt)
  /\ res.err = ""
  /\ Issued(res.cmds, RunStateVerbs \cup EnablementVerbs) = <<ActionCmd("stop")>>

----------------------------------------------------------------------------
(* GetDependencies: which tasks of the pass a service waits for *)

dockerService == "docker.service"

\* a task of the map: its Go type, its name and, for a File, BeforeServices
NodeupTask(type, name, before) ==
  [type |-> type, Name |-> name, BeforeServices |-> before]

\* case *Package, *AptSource, ... : always a dependency
DependedOnTypes ==
  {"Package", "AptSource", "UserTask", "GroupTask", "Chattr", "BindMount",
   "Archive", "Prefix", "UpdateEtcHostsTask"}

\* case *Service, *PullImageTask, ... : ignore
IgnoredTypes ==
  {"Service", "PullImageTask", "IssueCert", "BootstrapClientTask", "KubeConfig"}

\* the tasks a nodeup pass is built from; "Unhandled" stands for a type the
\* switch does not list
NodeupTasks ==
  { NodeupTask("Package", "socat", <<>>),
    NodeupTask("UserTask", "kube-proxy", <<>>),
    NodeupTask("File", "/etc/hosts", <<>>),
    NodeupTask("File", "/etc/sysconfig/kubelet", <<kubeletService>>),
    NodeupTask("File", "/etc/docker/daemon.json", <<dockerService>>),
    NodeupTask("File", "/var/lib/kubelet/kubeconfig", <<kubeletService, kubeletService>>),
    NodeupTask("Service", kubeletService, <<>>),
    NodeupTask("Service", dockerService, <<>>),
    NodeupTask("PullImageTask", "pause", <<>>),
    NodeupTask("LoadImageTask", "kube-proxy", <<>>),
    NodeupTask("IssueCert", "kubelet-server", <<>>),
    NodeupTask("Unhandled", "other", <<>>) }

\* the tasks of an install run
InstallTasks ==
  { NodeupTask("InstallService", "kops-configuration.service", <<>>),
    NodeupTask("InstallService", "kops-installation.service", <<>>),
    NodeupTask("InstallFile", "/opt/kops/bin/nodeup", <<>>),
    NodeupTask("InstallFile", "/opt/kops/conf/kops-config.yaml", <<>>) }

\* the map key of a task
TaskKey(v) == <<v.type, v.Name>>

\* the task maps with the given tasks under their keys
TaskMap(ts) == [k \in {TaskKey(v) : v \in ts} |-> CHOOSE v \in ts : TaskKey(v) = k]

\* the orders in which "range" over a map may visit its keys
RangeOrders(m) ==
  {o \in [1..Cardinality(DOMAIN m) -> DOMAIN m] :
     \A i, j \in DOMAIN o : i # j => o[i] # o[j]}

\* v, appended once for each element of BeforeServices equal to the name
RECURSIVE AppendPerMatch(_, _, _)
AppendPerMatch(name, before, v) ==
  IF before = <<>> THEN <<>>
  ELSE (IF name = Head(before) THEN <<v>> ELSE <<>>)
         \o AppendPerMatch(name, Tail(before), v)

\* the switch with every File task taken for a dependency
AppendedUnfiltered(s, v) ==
  IF v.type \in DependedOnTypes THEN <<v>>
  ELSE IF v.type \in IgnoredTypes THEN <<>>
  ELSE IF v.type = "LoadImageTask"
       THEN (IF s.Name = kubeletService THEN <<v>> ELSE <<>>)
  ELSE <<v>>

\* the switch without its default case
AppendedListedOnly(s, v) ==
  IF v.type \in DependedOnTypes THEN <<v>>
  ELSE IF v.type \in IgnoredTypes THEN <<>>
  ELSE IF v.type = "LoadImageTask"
       THEN (IF s.Name = kubeletService THEN <<v>> ELSE <<>>)
  ELSE IF v.type = "File"
       THEN (IF Len(v.BeforeServices) > 0
             THEN AppendPerMatch(s.Name, v.BeforeServices, v)
             ELSE <<v>>)
  ELSE <<>>

\* lines 90-112: what one iteration appends to deps
Appended(s, v) ==
  IF v.type \in DependedOnTypes THEN <<v>>
  ELSE IF v.type \in IgnoredTypes THEN <<>>
  ELSE IF v.type = "LoadImageTask"
       THEN (IF s.Name = kubeletService THEN <<v>> ELSE <<>>)
  ELSE IF v.type = "File"
       THEN (IF Len(v.BeforeServices) > 0
             THEN AppendPerMatch(s.Name, v.BeforeServices, v)
             ELSE <<v>>)
  ELSE <<v>>

\* the loop broken off at the first task that is ignored
RECURSIVE ServiceGetDependenciesBreaking(_, _, _)
ServiceGetDependenciesBreaking(s, m, visit) ==
  IF visit = <<>> \/ m[Head(visit)].type \in IgnoredTypes THEN <<>>
  ELSE Appended(s, m[Head(visit)]) \o ServiceGetDependenciesBreaking(s, m, Tail(visit))

\* (s *Service) GetDependencies(tasks), the map visited in the given visit
RECURSIVE ServiceGetDependencies(_, _, _)
ServiceGetDependencies(s, m, visit) ==
  IF visit = <<>> THEN <<>>
  ELSE Appended(s, m[Head(visit)]) \o ServiceGetDependencies(s, m, Tail(visit))

\* (i *InstallService) GetDependencies(tasks)
RECURSIVE InstallServiceGetDependencies(_, _, _)
InstallServiceGetDependencies(i, m, visit) ==
  IF visit = <<>> THEN <<>>
  ELSE (IF m[Head(visit)].type # "InstallService" THEN <<m[Head(visit)]>> ELSE <<>>)
         \o InstallServiceGetDependencies(i, m, Tail(visit))

TaskSets(universe) == {ts \in SUBSET universe : Cardinality(ts) <= MaxTasks}

InitDependencies ==
  /\ IdleExcept({"dependency"})
  /\ \/ /\ receiver \in {[type |-> "Service", Name |-> n] : n \in {kubeletService, dockerService}}
        /\ tasks \in {TaskMap(ts) : ts \in TaskSets(NodeupTasks)}
     \/ /\ receiver = [type |-> "InstallService", Name |-> "kops-configuration.service"]
        /\ tasks \in {TaskMap(ts) : ts \in TaskSets(InstallTasks)}
  /\ deps = <<>>
  /\ nCalls = 0

\* the resolver asks the service for its dependencies
ServiceCall ==
  /\ receiver.type = "Service"
  /\ nCalls < MaxCalls
  /\ \E visit \in RangeOrders(tasks) : deps' = ServiceGetDependencies(receiver, tasks, visit)
  /\ nCalls' = nCalls + 1
  /\ UNCHANGED <<tasks, receiver>>
  /\ Frame({"dependency"})

InstallServiceCall ==
  /\ receiver.type = "InstallService"
  /\ nCalls < MaxCalls
  /\ \E visit \in RangeOrders(tasks) :
       deps' = InstallServiceGetDependencies(receiver, tasks, visit)
  /\ nCalls' = nCalls + 1
  /\ UNCHANGED <<tasks, receiver>>
  /\ Frame({"dependency"})

NextDependencies == ServiceCall \/ InstallServiceCall

SpecDependencies == InitDependencies /\ [][NextDependencies]_vars

----------------------------------------------------------------------------
(* Properties of GetDependencies *)

Range(f) == {f[x] : x \in DOMAIN f}

TasksOfType(types) == {v \in Range(tasks) : v.type \in types}

\* a Service was asked
ServiceAsked == receiver.type = "Service" /\ nCalls >= 1

Count(list, v) == Len(SelectSeq(list, LAMBDA x : x = v))

\* the step is a call of GetDependencies after an earlier one
CallsAgain == nCalls >= 1 /\ nCalls' = nCalls + 1

\* C12: a call of GetDependencies on the same task map names the same
\* dependencies, each as often, as the call before it, in whatever order the
\* map is visited, and leaves the map and the task asked as they were.
C12_GetDependenciesPure ==
  [][ CallsAgain =>
        /\ Range(deps') = Range(deps)
        /\ \A v \in Range(tasks) : Count(deps', v) = Count(deps, v)
        /\ tasks' = tasks
        /\ receiver' = receiver ]_vars

\* kubelet.service was asked twice and named three dependencies, one of them
\* a File that lists the service twice
C12_Witness ==
  /\ receiver = [type |-> "Service", Name |-> kubeletService]
  /\ nCalls = 2
  /\ Cardinality(Range(deps)) = 3
  /\ \E v \in Range(deps) : Count(deps, v) = 2

\* the types the switch of GetDependencies names
ListedTypes == DependedOnTypes \cup IgnoredTypes \cup {"LoadImageTask", "File"}

----------------------------------------------------------------------------
(* InstallService: the Service task embedded in an install task *)

\* InstallService{Service}
InstallService(service) == [Service |-> service]

\* the install targets a caller can hand over: none, or one through which
\* nothing has been applied yet
InstallTargets == {Nil, PtrTo([applied |-> <<>>])}

\* (e *InstallService) Find: the embedded Service's Find, its result wrapped
InstallServiceFind(e_, s, fault) ==
  LET r == Find(e_.Service, s, fault)
  IN IF r.actual = Nil \/ r.err # ""
     THEN [actual |-> Nil, err |-> r.err, sys |-> r.sys]
     ELSE [actual |-> PtrTo(InstallService(Deref(r.actual))), err |-> "", sys |-> r.sys]

\* RenderInstall handing no actual state on to RenderLocal
RenderInstallWithoutActual(target_, a_, e_, chg, s, t, fault) ==
  RenderLocal(Nil, e_.Service, chg.Service, s, t, fault)

\* (i *InstallService) RenderInstall(_, a, e, changes): the target is not
\* named; RenderLocal is called with a nil target and the embedded Services
RenderInstall(target_, a_, e_, chg, s, t, fault) ==
  LET actual == IF a_ # Nil THEN PtrTo(Deref(a_).Service) ELSE Nil
  IN RenderLocal(actual, e_.Service, chg.Service, s, t, fault)

InitInstall ==
  /\ IdleExcept({"service", "install"})
  /\ e0 \in {t \in DefaultedTasks : t.Definition \in {Nil, PtrTo(DefFull)}}
  /\ e = e0
  /\ nDefaults = 1
  /\ sys \in Hosts({DefFull, DefEnv}, RunStates({0, 1}), {<<>>}, {0}, {0, 1})
  /\ now = MaxTime
  /\ pc = "call"
  /\ a = Nil
  /\ findErr = ""
  /\ changes = EmptyChanges
  /\ res = NoResult
  /\ passes = 1
  /\ target \in InstallTargets

\* RenderInstall is called with a target; a is nil or what Find reports
RenderInstallCall ==
  /\ pc = "call"
  /\ \E aa \in {Nil, InstallServiceFind(InstallService(e), sys, "none").actual},
        chg \in ChangesOf(e), fault \in RenderFaults :
       LET r == RenderInstall(target, aa, InstallService(e), InstallService(chg),
                              sys, now, fault)
           hit == r # RenderInstall(target, aa, InstallService(e), InstallService(chg),
                                    sys, now, "none")
       IN /\ a' = aa
          /\ changes' = chg
          /\ sys' = r.sys
          /\ res' = Result(r, passes, IF hit THEN fault ELSE "none")
          /\ pc' = "returned"
  /\ UNCHANGED <<e0, e, nDefaults, now, findErr, passes, target>>
  /\ Frame({"service", "install"})

SpecInstall == InitInstall /\ [][RenderInstallCall]_vars

----------------------------------------------------------------------------
(* Properties of RenderInstall *)

\* the step is the call of RenderInstall with an install target
InstallCalls == pc = "call" /\ pc' = "returned" /\ target # Nil

\* what RenderLocal returns for the Services embedded in the arguments
LocalResult ==
  RenderLocal(IF a' = Nil THEN Nil ELSE PtrTo(Deref(a').Service), e, changes',
              sys, now, res'.fault)

----------------------------------------------------------------------------
(* The dependency resolver and the convergence executor *)

\* the tasks of a pass, in the order of their identities
TaskIds == <<"A", "B", "C", "D">>

Nodes == Range(TaskIds)

\* the edges a pass may have: <<t, d>> for "t depends on d"
Edges ==
  { <<"B", "A">>, <<"C", "B">>, <<"A", "B">>, <<"D", "C">>, <<"A", "C">> }

\* the graph of a set of edges: for each task the tasks it depends on
GraphOf(edges) == [t \in Nodes |-> {d \in Nodes : <<t, d>> \in edges}]

\* the tasks reached from the set along the edges
RECURSIVE Closure(_, _)
Closure(g, ts) ==
  LET more == ts \cup UNION {g[t] : t \in ts}
  IN IF more = ts THEN ts ELSE Closure(g, more)

\* every task t depends on, directly or not
TransitiveDependencies(g, t) == Closure(g, g[t])

\* the tasks on a dependency cycle
OnCycle(g) == {t \in Nodes : t \in TransitiveDependencies(g, t)}

\* the topological order, the first task by identity among those whose
\* dependencies are all placed taken next
RECURSIVE Sorted(_, _)
Sorted(g, placed) ==
  LET done == Range(placed)
      ready == {i \in DOMAIN TaskIds : TaskIds[i] \notin done /\ g[TaskIds[i]] \subseteq done}
  IN IF ready = {} THEN placed
     ELSE Sorted(g, Append(placed, TaskIds[CHOOSE i \in ready : \A j \in ready : i <= j]))

\* the resolver that reports a cycle of direct mutual dependencies only
ResolveDirectCycles(g) ==
  LET direct == {t \in Nodes : \E d \in g[t] : t \in g[d]}
  IN IF direct # {}
     THEN [order |-> <<>>, err |-> direct]
     ELSE [order |-> Sorted(g, <<>>), err |-> {}]

\* the resolver: the order, or the tasks of the cycles and no order
Resolve(g) ==
  IF OnCycle(g) # {}
  THEN [order |-> <<>>, err |-> OnCycle(g)]
  ELSE [order |-> Sorted(g, <<>>), err |-> {}]

FailurePlans ==
  {f \in [Nodes -> {"none", "Find", "CheckChanges", "Run"}] :
     Cardinality({t \in Nodes : f[t] # "none"}) <= MaxFailures}

InitExecutor ==
  /\ IdleExcept({"executor"})
  /\ graph \in {GraphOf(es) : es \in SUBSET Edges}
  /\ order = <<>>
  /\ resolveErr = {}
  /\ state = [t \in Nodes |-> "Pending"]
  /\ failAt \in FailurePlans
  /\ passResult = "unresolved"

\* the pass begins: the resolver orders the tasks or reports the cycle, which
\* ends the pass
ResolveStep ==
  /\ passResult = "unresolved"
  /\ LET r == Resolve(graph)
     IN /\ order' = r.order
        /\ resolveErr' = r.err
        /\ passResult' = IF r.err # {} THEN "failed" ELSE "running"
  /\ UNCHANGED <<graph, state, failAt>>
  /\ Frame({"executor"})

\* a task may start when it is in the order and nothing it waits for is open
MayStartUnordered(t) == state[t] = "Pending"

MayStart(t) ==
  /\ state[t] = "Pending"
  /\ t \in Range(order)
  /\ \A d \in graph[t] : state[d] = "Done"

\* the executor calls the task's Find
FindTask(t) ==
  /\ passResult = "running"
  /\ MayStart(t)
  /\ state' = [state EXCEPT ![t] = "Found"]
  /\ UNCHANGED <<graph, order, resolveErr, failAt, passResult>>
  /\ Frame({"executor"})

\* what becomes of a task whose step failed, with the failure overlooked
AfterFailureIgnored(t, step, next) == next

AfterFailure(t, step, next) == IF failAt[t] = step THEN "Failed" ELSE next

\* Find has returned: its error fails the task, else CheckChanges is called
DiffTask(t) ==
  /\ passResult = "running"
  /\ state[t] = "Found"
  /\ state' = [state EXCEPT ![t] = AfterFailure(t, "Find", "Diffed")]
  /\ UNCHANGED <<graph, order, resolveErr, failAt, passResult>>
  /\ Frame({"executor"})

\* CheckChanges has returned: its error fails the task, else Run is called
\* if there are changes and the task is skipped if there are none
ApplyTask(t) ==
  /\ passResult = "running"
  /\ state[t] = "Diffed"
  /\ \E next \in {"Applied", "Skipped"} :
       state' = [state EXCEPT ![t] = AfterFailure(t, "CheckChanges", next)]
  /\ UNCHANGED <<graph, order, resolveErr, failAt, passResult>>
  /\ Frame({"executor"})

\* Run has returned, or was not needed
FinishTask(t) ==
  /\ passResult = "running"
  /\ state[t] \in {"Applied", "Skipped"}
  /\ state' = [state EXCEPT ![t] =
                 IF state[t] = "Applied" THEN AfterFailure(t, "Run", "Done") ELSE "Done"]
  /\ UNCHANGED <<graph, order, resolveErr, failAt, passResult>>
  /\ Frame({"executor"})

\* no task is being worked on and none may start: the pass reports
EndPass ==
  /\ passResult = "running"
  /\ \A t \in Nodes : state[t] \in {"Done", "Failed"} \/ (state[t] = "Pending" /\ ~MayStart(t))
  /\ passResult' = IF \E t \in Nodes : state[t] = "Failed" THEN "failed" ELSE "ok"
  /\ UNCHANGED <<graph, order, resolveErr, state, failAt>>
  /\ Frame({"executor"})

NextExecutor ==
  \/ ResolveStep
  \/ \E t \in Nodes : FindTask(t)
  \/ \E t \in Nodes : DiffTask(t)
  \/ \E t \in Nodes : ApplyTask(t)
  \/ \E t \in Nodes : FinishTask(t)
  \/ EndPass

SpecExecutor == InitExecutor /\ [][NextExecutor]_vars

----------------------------------------------------------------------------
(* Properties of the resolver and the executor *)

\* C14: a task has left Pending only if every task it depends on is Done, in
\* every interleaving of the tasks' steps; in the chain where B waits for A
\* and C for B, C is Pending until B is Done.
C14_DependenciesDoneFirst ==
  \A t \in Nodes :
    state[t] # "Pending" => \A d \in graph[t] : state[d] = "Done"

\* in the chain A, B, C the last task has started, with D worked on beside it
C14_Witness ==
  /\ graph["B"] = {"A"} /\ graph["C"] = {"B"} /\ graph["A"] = {} /\ graph["D"] = {}
  /\ state["C"] = "Found"
  /\ state["B"] = "Done"
  /\ state["D"] = "Diffed"

\* the task, or one it depends on directly or not, has Failed
Blocked(t) == \E d \in TransitiveDependencies(graph, t) : state[d] = "Failed"

\* the pass has reported after the tasks were resolved
PassOver == passResult \in {"ok", "failed"} /\ resolveErr = {}

\* C15: a task whose Find, CheckChanges or Run returned an error is Failed; a
\* task that depends, directly or not, on a Failed task stays Pending; when
\* the pass reports, every other task is Done or has Failed itself, and the
\* pass has failed exactly if some task Failed; a task once Done stays Done.
C15_FailureIsolation ==
  /\ [](\A t \in Nodes :
          /\ (failAt[t] = "Find" => state[t] \in {"Pending", "Found", "Failed"})
          /\ (failAt[t] = "CheckChanges" =>
                state[t] \in {"Pending", "Found", "Diffed", "Failed"})
          /\ (Blocked(t) => state[t] = "Pending")
          /\ (PassOver /\ ~Blocked(t) => state[t] \in {"Done", "Failed"})
          /\ (PassOver => (passResult = "failed") = (\E u \in Nodes : state[u] = "Failed")))
  /\ [][\A t \in Nodes :
          /\ (state[t] = "Applied" /\ failAt[t] = "Run") => state'[t] \in {"Applied", "Failed"}
          /\ state[t] = "Done" => state'[t] = "Done"]_vars

\* of two separate chains, B after A and D after C, the first failed in A's
\* Run and the second completed; the pass reported failure
C15_Witness ==
  /\ graph["B"] = {"A"} /\ graph["D"] = {"C"} /\ graph["A"] = {} /\ graph["C"] = {}
  /\ failAt["A"] = "Run"
  /\ state = [t \in Nodes |-> IF t = "A" THEN "Failed" ELSE IF t = "B" THEN "Pending" ELSE "Done"]
  /\ passResult = "failed"

\* the order holds every task once, each after the tasks it depends on
RespectsEdges(o) ==
  /\ Range(o) = Nodes
  /\ Len(o) = Cardinality(Nodes)
  /\ \A i, j \in DOMAIN o : o[j] \in graph[o[i]] => j < i

\* C16: once the resolver has run, either it gave an order of all tasks that
\* respects every edge, or it named tasks and then: the pass has failed,
\* there is no order, no task has left Pending, and two tasks that depend on
\* each other, or three that depend on each other in a ring, are all named.
C16_CycleIsFatal ==
  passResult # "unresolved" =>
    /\ resolveErr = {} => RespectsEdges(order)
    /\ resolveErr # {} =>
         /\ passResult = "failed"
         /\ order = <<>>
         /\ \A t \in Nodes : state[t] = "Pending"
    /\ ("A" \in graph["B"] /\ "B" \in graph["A"]) => {"A", "B"} \subseteq resolveErr
    /\ ("A" \in graph["B"] /\ "B" \in graph["C"] /\ "C" \in graph["A"]) =>
         {"A", "B", "C"} \subseteq resolveErr

\* A and B depend on each other, D waits for C: the resolver named A and B
\* and the pass failed with every task Pending
C16_Witness ==
  /\ graph["B"] = {"A"} /\ graph["A"] = {"B"} /\ graph["D"] = {"C"} /\ graph["C"] = {}
  /\ resolveErr = {"A", "B"}
  /\ passResult = "failed"
  /\ \A t \in Nodes : state[t] = "Pending"

----------------------------------------------------------------------------
(* GetInstanceCertificateAlternateNames *)

NetworkInterface(ip, ip6) == [NetworkIP |-> ip, Ipv6Address |-> ip6]

\* the addresses the interfaces of an instance may have, by position
InternalIPs == <<"10.0.0.1", "10.0.0.2", "10.0.0.3", "10.0.0.4">>

InternalIPv6s == <<"fd00::1", "fd00::2", "fd00::3", "fd00::4">>

\* the i-th interface of an instance, with or without each address
InterfacesAt(i) ==
  {NetworkInterface(ip, ip6) : ip \in {"", InternalIPs[i]}, ip6 \in {"", InternalIPv6s[i]}}

InterfaceLists ==
  UNION {{l \in [1..n -> UNION {InterfacesAt(i) : i \in 1..n}] :
            \A i \in 1..n : l[i] \in InterfacesAt(i)} : n \in 0..MaxInterfaces}

Instance(name, interfaces) == [Name |-> name, NetworkInterfaces |-> interfaces]

\* the addresses of one interface, as the loop body appends them
InterfaceAddresses(iface) ==
  (IF iface.NetworkIP # "" THEN <<iface.NetworkIP>> ELSE <<>>)
    \o (IF iface.Ipv6Address # "" THEN <<iface.Ipv6Address>> ELSE <<>>)

\* GetInstanceCertificateAlternateNames(instance): the loop stops after the
\* first interface that gave an address; the error is always nil
RECURSIVE GetInstanceCertificateAlternateNames(_)
GetInstanceCertificateAlternateNames(inst) ==
  IF inst.NetworkInterfaces = <<>> THEN <<>>
  ELSE LET got == InterfaceAddresses(Head(inst.NetworkInterfaces))
       IN IF Len(got) > 0 THEN got
          ELSE GetInstanceCertificateAlternateNames(
                 [inst EXCEPT !.NetworkInterfaces = Tail(@)])

InitAlternateNames ==
  /\ IdleExcept({"verifier"})
  /\ request = <<>>
  /\ verify = <<>>
  /\ instance \in {Instance("node-1", l) : l \in InterfaceLists}
  /\ sans = <<"not called">>

AlternateNamesCall ==
  /\ sans = <<"not called">>
  /\ sans' = GetInstanceCertificateAlternateNames(instance)
  /\ UNCHANGED <<request, verify, instance>>
  /\ Frame({"verifier"})

SpecAlternateNames == InitAlternateNames /\ [][AlternateNamesCall]_vars

----------------------------------------------------------------------------
(* Properties of GetInstanceCertificateAlternateNames *)

AlternateNamesReturned == sans # <<"not called">>

\* C18 as claimed, for an instance whose first interface has an IPv4 and an
\* IPv6 address: the list returned starts with the node name, and what
\* follows is at most one address, the first address of the first interface.
C18_NodeNameThenFirstIP ==
  (/\ AlternateNamesReturned
   /\ instance.NetworkInterfaces # <<>>
   /\ instance.NetworkInterfaces[1] = NetworkInterface("10.0.0.1", "fd00::1")) =>
    /\ Len(sans) >= 1
    /\ sans[1] = instance.Name
    /\ Len(sans) <= 2
    /\ Len(sans) = 2 =>
         /\ instance.NetworkInterfaces # <<>>
         /\ sans[2] = Head(InterfaceAddresses(instance.NetworkInterfaces[1]))

----------------------------------------------------------------------------
(* tpmVerifier.VerifyToken *)

\* v.opt, the verifier's options
opt ==
  [ProjectID |-> "my-project", Region |-> "us-east1", ClusterName |-> "my.k8s.local",
   MaxTimeSkew |-> 2]

AudienceNodeAuthentication == "kops.k8s.io/node-bootstrap"

NodeupChallenge == "3987"

\* sha256.Sum256, taken to be free of collisions
Sum256(data) == <<"sha256", data>>

\* a metadata item; the value is a pointer
Item(key, value) == [Key |-> key, Value |-> value]

ClusterItem(name) == Item("cluster-name", PtrTo(name))

GroupItem(name) == Item("kops-k8s-io-instance-group-name", PtrTo(name))

\* an instance's zone: the components of the URL, a zone name being the
\* region, "-" and a letter
ZoneURL(region) == <<<<"projects">>, <<"my-project">>, <<"zones">>, <<region, "-", "b">>>>

\* a valid request of node-1, a member of the instance group "nodes", with
\* the answers of the compute API and of the cluster API manager
ValidRequest ==
  [ hasPrefix |-> TRUE,            \* the token starts with the GCE TPM prefix
    base64Decodes |-> TRUE,        \* the rest decodes as base64
    tokenUnmarshals |-> TRUE,      \* ... to the JSON of an AuthToken
    dataUnmarshals |-> TRUE,       \* whose Data is the JSON of an AuthTokenData
    Audience |-> AudienceNodeAuthentication,
    Timestamp |-> 0,               \* seconds from the verifier's clock
    RequestHash |-> Sum256("body"),
    body |-> "body",
    GCPProjectID |-> "my-project",
    Zone |-> "us-east1-b",
    Instance |-> "node-1",
    signedBy |-> "ek-node-1",      \* the key that signed token.Data
    getInstance |-> "ok",          \* Instances.Get
    instanceZone |-> ZoneURL("us-east1"),
    items |-> <<ClusterItem("my.k8s.local"), GroupItem("nodes")>>,
    capgRole |-> "",
    capiManager |-> FALSE,         \* v.capiManager != nil
    findMachine |-> "machine-1",   \* FindMachineByProviderID
    identity |-> "ek-node-1",      \* GetShieldedInstanceIdentity and the key parsed
    interfaces |-> <<NetworkInterface("10.0.0.1", "")>> ]

\* the other values of each field
Deviations ==
  [ hasPrefix |-> {FALSE},
    base64Decodes |-> {FALSE},
    tokenUnmarshals |-> {FALSE},
    dataUnmarshals |-> {FALSE},
    Audience |-> {"", "kops.k8s.io/other"},
    Timestamp |-> {0 - opt.MaxTimeSkew - 1, 0 - opt.MaxTimeSkew, opt.MaxTimeSkew,
                   opt.MaxTimeSkew + 1},
    RequestHash |-> {Sum256("other body"), <<>>},
    body |-> {"other body"},
    GCPProjectID |-> {"", "other-project"},
    Zone |-> {""},
    Instance |-> {""},
    signedBy |-> {"ek-other", "none"},
    getInstance |-> {"notFound", "error"},
    instanceZone |-> {ZoneURL("europe-west1"), <<<<"us-east1", "-", "b">>>>,
                      <<<<"us-east1">>>>, <<<<"zones">>, <<>>>>},
    items |-> {<<>>, <<GroupItem("nodes")>>, <<ClusterItem("my.k8s.local")>>,
               <<GroupItem("nodes"), ClusterItem("other.k8s.local")>>,
               <<ClusterItem("other.k8s.local"), GroupItem("nodes"), ClusterItem("my.k8s.local")>>,
               <<ClusterItem("my.k8s.local"), Item("kops-k8s-io-instance-group-name", Nil)>>,
               <<Item("cluster-name", Nil), GroupItem("nodes")>>},
    capgRole |-> {"worker"},
    capiManager |-> {TRUE},
    findMachine |-> {"error", "none"},
    identity |-> {"error", "noSigningKey", "badPEM", "badKey", "notRSA", "ek-other"},
    interfaces |-> {<<NetworkInterface("", "fd00::1")>>,
                    <<NetworkInterface("", ""), NetworkInterface("10.0.0.2", "")>>,
                    <<NetworkInterface("10.0.0.1", "fd00::1"), NetworkInterface("10.0.0.2", "")>>} ]

\* the requests that differ from the valid one in at most n fields.  Every
\* instance the compute API returns has a network interface and metadata.
RECURSIVE Requests(_)
Requests(n) ==
  IF n = 0 THEN {ValidRequest}
  ELSE LET fewer == Requests(n - 1)
       IN fewer \cup UNION {{[r EXCEPT ![f] = v] : v \in Deviations[f]} :
                              r \in fewer, f \in DOMAIN Deviations}

ErrNotThisVerifier == "token not valid for this verifier"

\* strings.HasPrefix on sequences of atoms
HasPrefix(str, prefix) ==
  Len(str) >= Len(prefix) /\ SubSeq(str, 1, Len(prefix)) = prefix

\* lastComponent: what follows the last slash, the whole string without one
lastComponent(url) == url[Len(url)]

\* the value the loop over instance.Metadata.Items leaves for the key
RECURSIVE MetadataValue(_, _, _)
MetadataValue(items, key, value) ==
  IF items = <<>> THEN value
  ELSE MetadataValue(Tail(items), key,
                     IF Head(items).Key = key
                     THEN (IF Head(items).Value = Nil THEN "" ELSE Deref(Head(items).Value))
                     ELSE value)

\* token.Data, the bytes that are signed
TokenData(req) ==
  [Audience |-> req.Audience, Timestamp |-> req.Timestamp, RequestHash |-> req.RequestHash,
   GCPProjectID |-> req.GCPProjectID, Zone |-> req.Zone, Instance |-> req.Instance]

\* token.Signature: the key that signed and the hash it signed
TokenSignature(req) == [key |-> req.signedBy, hash |-> Sum256(TokenData(req))]

\* verifySignature accepting a signature by any key
verifySignatureAnyKey(signingKey, payload, signature) ==
  signature.key # "none" /\ signature.hash = Sum256(payload)

\* verifySignature: rsa.VerifyPKCS1v15 of the payload's hash
verifySignature(signingKey, payload, signature) ==
  signature.key = signingKey /\ signature.hash = Sum256(payload)

\* getTPMSigningKey: the key, or the error of the step that failed
getTPMSigningKey(req) ==
  IF req.identity = "error"
  THEN [key |-> "", err |-> "failed to get shield instance identity"]
  ELSE IF req.identity = "noSigningKey"
  THEN [key |-> "", err |-> "instance doesn't have a signing key in ShieldedVmIdentity"]
  ELSE IF req.identity = "badPEM"
  THEN [key |-> "", err |-> "failed parsing PEM block from EkPub"]
  ELSE IF req.identity = "badKey"
  THEN [key |-> "", err |-> "failed parsing EK public key"]
  ELSE IF req.identity = "notRSA"
  THEN [key |-> "", err |-> "EK public key is not *rsa.PublicKey"]
  ELSE [key |-> req.identity, err |-> ""]

Abs(x) == IF x < 0 THEN 0 - x ELSE x

\* what VerifyToken returns, with the cloud calls it made on the way and,
\* after them, the verification of the signature if it came to that
Returns(result, err, calls) ==
  [result |-> result, err |-> err, calls |-> calls, panic |-> FALSE, called |-> TRUE]

Panics(calls) ==
  [result |-> Nil, err |-> "", calls |-> calls, panic |-> TRUE, called |-> TRUE]

\* lines 607-635: the signature check and the result
VerifySigned(req, instanceGroupName, capiMachine, calls) ==
  LET k == getTPMSigningKey(req)
      calls2 == Append(calls, "GetShieldedInstanceIdentity")
      calls3 == Append(calls2, "verifySignature")
  IN IF k.err # "" THEN Returns(Nil, k.err, calls2)
     ELSE IF ~verifySignature(k.key, TokenData(req), TokenSignature(req))
     THEN Returns(Nil, "failed to verify claim signature for node", calls3)
     ELSE IF req.interfaces = <<>> THEN Panics(calls3)
     ELSE Returns(PtrTo([NodeName |-> "node-1",
                         InstanceGroupName |-> instanceGroupName,
                         CAPIMachine |-> capiMachine,
                         CertificateNames |->
                           GetInstanceCertificateAlternateNames(
                             Instance("node-1", req.interfaces)),
                         ChallengeEndpoint |->
                           <<req.interfaces[1].NetworkIP, ":", NodeupChallenge>>]),
                  "", calls3)

\* the instance checks without the check of ownership
VerifyInstanceUnowned(req, calls) ==
  LET clusterName == MetadataValue(req.items, "cluster-name", "")
      instanceGroupName == MetadataValue(req.items, "kops-k8s-io-instance-group-name", "")
      asksManager == req.capiManager /\ req.capgRole # ""
      calls2 == IF asksManager THEN Append(calls, "FindMachineByProviderID") ELSE calls
      capiMachine == IF asksManager /\ req.findMachine \notin {"error", "none"}
                     THEN PtrTo(req.findMachine) ELSE Nil
  IN IF ~HasPrefix(lastComponent(req.instanceZone), <<opt.Region, "-">>)
     THEN Returns(Nil, "instance was in another zone than the expected region", calls)
     ELSE IF clusterName = ""
     THEN Returns(Nil, "could not determine cluster for instance", calls)
     ELSE IF clusterName # opt.ClusterName
     THEN Returns(Nil, "clusterName does not match expected", calls)
     ELSE IF asksManager /\ req.findMachine = "error"
     THEN Returns(Nil, "error finding Machine with providerID", calls2)
     ELSE VerifySigned(req, instanceGroupName, capiMachine, calls2)

\* the signature verified before the instance is looked up
VerifyInstanceSignedFirst(req, calls) ==
  LET k == getTPMSigningKey(req)
  IN  IF k.err # "" THEN Returns(Nil, k.err, <<"GetShieldedInstanceIdentity">>)
      ELSE IF ~verifySignature(k.key, TokenData(req), TokenSignature(req))
      THEN Returns(Nil, "failed to verify claim signature for node",
                   <<"GetShieldedInstanceIdentity", "verifySignature">>)
      ELSE Returns(Nil, "unable to find instance in compute API",
                   <<"GetShieldedInstanceIdentity", "verifySignature", "Instances.Get">>)

\* lines 565-605: the instance is of this region and cluster, and owned
VerifyInstance(req, calls) ==
  LET clusterName == MetadataValue(req.items, "cluster-name", "")
      instanceGroupName == MetadataValue(req.items, "kops-k8s-io-instance-group-name", "")
      asksManager == req.capiManager /\ req.capgRole # ""
      calls2 == IF asksManager THEN Append(calls, "FindMachineByProviderID") ELSE calls
      capiMachine == IF asksManager /\ req.findMachine \notin {"error", "none"}
                     THEN PtrTo(req.findMachine) ELSE Nil
  IN IF ~HasPrefix(lastComponent(req.instanceZone), <<opt.Region, "-">>)
     THEN Returns(Nil, "instance was in another zone than the expected region", calls)
     ELSE IF clusterName = ""
     THEN Returns(Nil, "could not determine cluster for instance", calls)
     ELSE IF clusterName # opt.ClusterName
     THEN Returns(Nil, "clusterName does not match expected", calls)
     ELSE IF asksManager /\ req.findMachine = "error"
     THEN Returns(Nil, "error finding Machine with providerID", calls2)
     ELSE IF instanceGroupName = "" /\ capiMachine = Nil
     THEN Returns(Nil, "could not determine ownership for instance", calls2)
     ELSE VerifySigned(req, instanceGroupName, capiMachine, calls2)

\* (v *tpmVerifier) VerifyToken(ctx, rawRequest, authToken, body)
VerifyToken(req) ==
  IF ~req.hasPrefix THEN Returns(Nil, ErrNotThisVerifier, <<>>)
  ELSE IF ~req.base64Decodes THEN Returns(Nil, "decoding authorization token", <<>>)
  ELSE IF ~req.tokenUnmarshals THEN Returns(Nil, "unmarshalling authorization token", <<>>)
  ELSE IF ~req.dataUnmarshals
  THEN Returns(Nil, "unmarshalling authorization token data", <<>>)
  ELSE IF req.Audience # AudienceNodeAuthentication THEN Returns(Nil, "incorrect Audience", <<>>)
  ELSE IF Abs(req.Timestamp) > opt.MaxTimeSkew THEN Returns(Nil, "incorrect Timestamp", <<>>)
  ELSE IF Sum256(req.body) # req.RequestHash THEN Returns(Nil, "incorrect RequestHash", <<>>)
  ELSE IF req.GCPProjectID = "" THEN Returns(Nil, "gcpProjectID is required", <<>>)
  ELSE IF req.Zone = "" THEN Returns(Nil, "zone is required", <<>>)
  ELSE IF req.Instance = "" THEN Returns(Nil, "instance is required", <<>>)
  ELSE IF req.GCPProjectID # opt.ProjectID
  THEN Returns(Nil, "projectID does not match expected", <<>>)
  ELSE IF req.getInstance = "notFound"
  THEN Returns(Nil, "unable to find instance in compute API", <<"Instances.Get">>)
  ELSE IF req.getInstance = "error"
  THEN Returns(Nil, "error fetching instance from compute API", <<"Instances.Get">>)
  ELSE VerifyInstance(req, <<"Instances.Get">>)

NotCalled == [result |-> Nil, err |-> "", calls |-> <<>>, panic |-> FALSE, called |-> FALSE]

InitVerify ==
  /\ IdleExcept({"verifier"})
  /\ request \in Requests(MaxDeviations)
  /\ verify = NotCalled
  /\ instance = <<>>
  /\ sans = <<>>

VerifyTokenCall ==
  /\ ~verify.called
  /\ verify' = VerifyToken(request)
  /\ UNCHANGED <<request, instance, sans>>
  /\ Frame({"verifier"})

SpecVerify == InitVerify /\ [][VerifyTokenCall]_vars

----------------------------------------------------------------------------
(* Properties of VerifyToken *)

\* every check of VerifyToken passes for the request
Validated(req) ==
  /\ req.hasPrefix /\ req.base64Decodes /\ req.tokenUnmarshals /\ req.dataUnmarshals
  /\ req.Audience = AudienceNodeAuthentication
  /\ req.Timestamp \in (0 - opt.MaxTimeSkew)..opt.MaxTimeSkew
  /\ req.RequestHash = Sum256(req.body)
  /\ req.GCPProjectID = opt.ProjectID /\ req.Zone # "" /\ req.Instance # ""
  /\ req.getInstance = "ok"
  /\ req.instanceZone[Len(req.instanceZone)] \in {<<opt.Region, "-", "b">>}
  /\ \E i \in DOMAIN req.items :
       /\ req.items[i] = ClusterItem(opt.ClusterName)
       /\ \A j \in DOMAIN req.items : req.items[j].Key = "cluster-name" => j <= i
  /\ req.signedBy = req.identity
  /\ req.identity \in {"ek-node-1", "ek-other"}

AudienceOk(req) == req.Audience = AudienceNodeAuthentication

TimestampOk(req) == Abs(req.Timestamp) <= opt.MaxTimeSkew

RequestHashOk(req) == req.RequestHash = Sum256(req.body)

FieldsPresent(req) == req.GCPProjectID # "" /\ req.Zone # "" /\ req.Instance # ""

ProjectOk(req) == req.GCPProjectID = opt.ProjectID

\* the last component of the instance's zone is a zone of the region
ZoneInRegion(req) ==
  LET zone == req.instanceZone[Len(req.instanceZone)]
  IN  Len(zone) >= 2 /\ zone[1] = opt.Region /\ zone[2] = "-"

\* the last cluster-name item of the instance's metadata names the cluster
ClusterOk(req) ==
  LET named == {i \in DOMAIN req.items : req.items[i].Key = "cluster-name"}
  IN  /\ named # {}
      /\ req.items[CHOOSE i \in named : \A j \in named : j <= i].Value
           = PtrTo(opt.ClusterName)

\* the instance names its instance group, or the manager found its Machine
Owned(req) ==
  \/ LET named == {i \in DOMAIN req.items :
                     req.items[i].Key = "kops-k8s-io-instance-group-name"}
     IN  /\ named # {}
         /\ req.items[CHOOSE i \in named : \A j \in named : j <= i].Value # Nil
  \/ req.capiManager /\ req.capgRole # "" /\ req.findMachine \notin {"error", "none"}

\* the token is signed by the signing key of the instance's TPM
Signed(req) ==
  /\ req.identity \notin {"error", "noSigningKey", "badPEM", "badKey", "notRSA"}
  /\ req.signedBy = req.identity

\* C22: VerifyToken returns a result only if the audience, the time skew,
\* the hash of the body, the presence of project, zone and instance, the
\* project, the region of the instance's zone, the cluster name, the
\* ownership and the signature were all as required; if one of them is not,
\* it returns an error and no result.
C22_ResultOnlyIfAllHeld ==
  verify.called =>
    LET all == /\ AudienceOk(request) /\ TimestampOk(request)
               /\ RequestHashOk(request) /\ FieldsPresent(request)
               /\ ProjectOk(request) /\ ZoneInRegion(request)
               /\ ClusterOk(request) /\ Owned(request) /\ Signed(request)
    IN  /\ verify.result # Nil => all
        /\ ~all => (verify.err # "" /\ verify.result = Nil)

\* a result was returned for a token at the edge of the allowed time skew,
\* of an instance that names its instance group and has no Machine
C22_Witness ==
  /\ verify.called
  /\ verify.result # Nil
  /\ request.Timestamp = opt.MaxTimeSkew
  /\ Deref(verify.result).InstanceGroupName = "nodes"
  /\ Deref(verify.result).CAPIMachine = Nil
  /\ request.capiManager

Step(calls, name) == {i \in DOMAIN calls : calls[i] = name}

\* the lookups made with the project, zone and instance of the token
Lookups == {"Instances.Get", "FindMachineByProviderID", "GetShieldedInstanceIdentity"}

\* C23 as claimed: a lookup in the compute API or the Cluster API with the
\* token's project, zone and instance is made only after the signature has
\* been verified.
C23_SignatureBeforeLookups ==
  verify.called =>
    \A i \in DOMAIN verify.calls :
      verify.calls[i] \in Lookups =>
        \E j \in Step(verify.calls, "verifySignature") : j < i

\* C23 as amended: the signature is verified after every lookup made with
\* the token's project, zone and instance, the lookup of the instance
\* always among them, and before any result is returned; the lookups are
\* made only for a token whose audience, timestamp, body hash and project
\* passed their checks.
C23_SignatureBeforeResult ==
  verify.called =>
    /\ \A j \in Step(verify.calls, "verifySignature") :
         /\ j = Len(verify.calls)
         /\ Step(verify.calls, "Instances.Get") = {1}
         /\ \A i \in 1..(j - 1) : verify.calls[i] \in Lookups
    /\ verify.result # Nil => Step(verify.calls, "verifySignature") # {}
    /\ verify.calls # <<>> =>
         /\ AudienceOk(request) /\ TimestampOk(request) /\ RequestHashOk(request)
         /\ FieldsPresent(request) /\ ProjectOk(request)

\* the signature of a token did not verify, after the instance and its
\* signing key had been looked up with what the token says
C23_Witness ==
  /\ verify.called
  /\ verify.err = "failed to verify claim signature for node"
  /\ verify.calls = <<"Instances.Get", "GetShieldedInstanceIdentity", "verifySignature">>
----------------------------------------------------------------------------
(* PerformAssignments and ensureKubernetesVersion: the values a cluster    *)
(* spec is given before it is applied.  A cluster is a record of the       *)
(* fields the call reads or writes; SharedVPC and UsesPublicDNS are what   *)
(* the methods of that name answer for it.  An etcd cluster is its Manager *)
(* pointer, a manager its BackupRetentionDays pointer.  The cluster's name *)
(* and the API's public name are sequences of pieces of text, empty when   *)
(* the name is not set, so that "api." + name is computed.                 *)

defaultAWSNetworkCIDR == "172.20.0.0/16"

defaultAzureNetworkCIDR == "10.0.0.0/16"

defaultNonMasqueradeCIDR == "100.64.0.0/10"

defaultBackupRetentionDays == 90

EtcdManagerSpec(days) == [BackupRetentionDays |-> days]

EtcdManagers == {Nil, PtrTo(EtcdManagerSpec(Nil)), PtrTo(EtcdManagerSpec(PtrTo(30)))}

EtcdClusterLists ==
  UNION {[1..n -> [Manager : EtcdManagers]] : n \in 0..MaxEtcdClusters}

AzureSpec(group, account) == [ResourceGroupName |-> group, StorageAccountID |-> account]

\* the cloud handed to the call ("" is a nil cloud) with the provider
\* settings a cluster of that cloud can carry
CloudSettings ==
  {[cloud |-> "aws", AmazonVPC |-> v, Azure |-> Nil] : v \in BOOLEAN}
    \cup {[cloud |-> "azure", AmazonVPC |-> FALSE, Azure |-> z] :
            z \in {Nil} \cup {PtrTo(AzureSpec(g, t)) : g \in {"", "group-1"}, t \in {"", "account-1"}}}
    \cup {[cloud |-> k, AmazonVPC |-> FALSE, Azure |-> Nil] : k \in {"", "gce", "openstack"}}

EgressProxySpec(excludes) == [ProxyExcludes |-> excludes]

Clusters ==
  {[Name |-> n, NetworkCIDR |-> nc, NonMasqueradeCIDR |-> nm, PublicName |-> pn,
    KubernetesVersion |-> kv, Channel |-> ch, AmazonVPC |-> cs.AmazonVPC,
    Azure |-> cs.Azure, Topology |-> Nil, EtcdClusters |-> ec, EgressProxy |-> ep,
    SharedVPC |-> sh, UsesPublicDNS |-> dns, cloud |-> cs.cloud] :
     n \in {<<>>, <<"k.example.com">>}, nc \in {"", "10.1.0.0/16"},
     nm \in {"", "::/0", "100.96.0.0/11"}, pn \in {<<>>, <<"api.custom">>},
     kv \in {"", "1.30.0"}, ch \in {"", "stable"}, cs \in CloudSettings,
     ec \in EtcdClusterLists,
     ep \in {Nil, PtrTo(EgressProxySpec(<<>>))}, sh \in BOOLEAN, dns \in BOOLEAN}

\* what the collaborators of one call answer: which of them fails (a call
\* returns at the first failure, so one is enough), the network found for
\* the cluster's NetworkID, the version the channel recommends; the latest
\* stable version is 1.32.0
Environments ==
  {[fail |-> f, vpcInfo |-> v, recommended |-> r] :
     f \in {"none", "gce", "network", "subnets", "storage account", "storage",
            "channel", "latest"},
     v \in {"none", "", "10.2.0.0/16"}, r \in {"none", "1.31.0"}}

\* the answers that matter to the call for the cluster c: a collaborator
\* the call does not consult for c neither fails nor answers
Consulted(c) ==
  LET network == c.cloud \in {"aws", "azure"} /\ c.NetworkCIDR = "" /\ c.SharedVPC
      channel == c.KubernetesVersion = "" /\ c.Channel # ""
  IN  {env \in Environments :
         /\ env.fail = "gce" => c.cloud = "gce"
         /\ env.fail = "network" => network
         /\ env.vpcInfo # "none" => network
         /\ env.fail = "subnets" => c.cloud \in {"aws", "openstack", "azure"}
         /\ env.fail \in {"storage account", "storage"} =>
              c.Azure # Nil /\ Deref(c.Azure).StorageAccountID = ""
         /\ env.fail = "channel" => channel
         /\ env.recommended # "none" => channel
         /\ env.fail = "latest" => c.KubernetesVersion = ""}

Assigned(c, err) == [c |-> c, err |-> err]

\* lines 760-768
AssignBackupRetention(c) ==
  [c EXCEPT !.EtcdClusters =
     [i \in DOMAIN @ |->
        LET manager == IF @[i].Manager = Nil THEN EtcdManagerSpec(Nil)
                       ELSE Deref(@[i].Manager)
        IN  [Manager |->
               PtrTo(IF manager.BackupRetentionDays = Nil
                     THEN EtcdManagerSpec(PtrTo(defaultBackupRetentionDays))
                     ELSE manager)]]]

\* lines 772-774
AssignTopology(c) ==
  IF c.Topology = Nil THEN [c EXCEPT !.Topology = PtrTo("topology")] ELSE c

AmazonVPCFollowsAnyNetwork(c) ==
  IF c.AmazonVPC
  THEN [c EXCEPT !.NonMasqueradeCIDR = c.NetworkCIDR]
  ELSE c

\* lines 804-807: Amazon VPC CNI uses the same network
AmazonVPCFollowsNetwork(c) ==
  IF c.AmazonVPC /\ c.NonMasqueradeCIDR # "::/0"
  THEN [c EXCEPT !.NonMasqueradeCIDR = c.NetworkCIDR]
  ELSE c

\* lines 786-829: the network CIDR of a cluster that has none, on AWS and
\* on Azure
AssignNetworkCIDR(c, env) ==
  IF c.cloud \in {"aws", "azure"} /\ c.NetworkCIDR = ""
  THEN IF c.SharedVPC
       THEN IF /\ c.cloud = "azure"
               /\ (c.Azure = Nil \/ Deref(c.Azure).ResourceGroupName = "")
            THEN Assigned(c, "missing required --azure-resource-group-name when specifying Network ID")
            ELSE IF env.fail = "network"
            THEN Assigned(c, "FindVPCInfo")
            ELSE IF env.vpcInfo = "none"
            THEN Assigned(c, "unable to find Network ID")
            ELSE IF env.vpcInfo = ""
            THEN Assigned([c EXCEPT !.NetworkCIDR = env.vpcInfo],
                          "unable to infer NetworkCIDR from Network ID, please specify --network-cidr")
            ELSE LET found == [c EXCEPT !.NetworkCIDR = env.vpcInfo]
                 IN  Assigned(IF c.cloud = "aws" THEN AmazonVPCFollowsNetwork(found)
                              ELSE found, "")
       ELSE IF c.cloud = "aws"
            THEN Assigned(AmazonVPCFollowsNetwork(
                            [c EXCEPT !.NetworkCIDR = defaultAWSNetworkCIDR]), "")
            ELSE Assigned([c EXCEPT !.NetworkCIDR = defaultAzureNetworkCIDR], "")
  ELSE Assigned(c, "")

\* lines 831-833
AssignNonMasqueradeCIDR(c) ==
  IF c.NonMasqueradeCIDR = ""
  THEN [c EXCEPT !.NonMasqueradeCIDR = defaultNonMasqueradeCIDR]
  ELSE c

\* lines 836-838
AssignPublicName(c) ==
  IF c.UsesPublicDNS /\ c.PublicName = <<>> /\ c.Name # <<>>
  THEN [c EXCEPT !.PublicName = <<"api.">> \o c.Name]
  ELSE c

\* the first address of a CIDR, as incrementIP computes it
FirstIP(cidr) ==
  CASE cidr = "::/0" -> "::1"
    [] cidr = "100.96.0.0/11" -> "100.96.0.1"
    [] cidr = defaultNonMasqueradeCIDR -> "100.64.0.1"
    [] cidr = defaultAWSNetworkCIDR -> "172.20.0.1"
    [] cidr = "10.2.0.0/16" -> "10.2.0.1"

\* a string as a name: no piece of text when it is empty
Text(str) == IF str = "" THEN <<>> ELSE <<str>>

\* assignProxy: the excludes of an egress proxy, built from the names and
\* networks of the cluster (ClusterDNSDomain and AdditionalNetworkCIDRs are
\* empty in the clusters of the model)
assignProxy(c) ==
  IF c.EgressProxy = Nil THEN Nil
  ELSE LET excludes ==
             <<Text("127.0.0.1"), Text("localhost"), c.PublicName, c.Name,
               Text(FirstIP(c.NonMasqueradeCIDR)), Text(c.NonMasqueradeCIDR),
               Text(IF c.cloud = "aws" THEN "169.254.169.254" ELSE ""),
               Text(c.NetworkCIDR)>>
       IN  PtrTo(EgressProxySpec(SelectSeq(excludes, LAMBDA x : x # <<>>)))

\* lines 856-867
AssignStorageAccount(c, env) ==
  IF c.Azure # Nil /\ Deref(c.Azure).StorageAccountID = ""
  THEN IF env.fail = "storage account"
       THEN Assigned(c, "AZURE_STORAGE_ACCOUNT must be set")
       ELSE IF env.fail = "storage"
       THEN Assigned(c, "FindStorageAccountInfo")
       ELSE Assigned([c EXCEPT !.Azure =
                        PtrTo([Deref(c.Azure) EXCEPT !.StorageAccountID = "account-1"])], "")
  ELSE Assigned(c, "")

\* lines 874-902
ensureKubernetesVersion(c, env) ==
  LET fromChannel ==
        IF c.KubernetesVersion = "" /\ c.Channel # ""
        THEN IF env.fail = "channel" THEN Assigned(c, "LoadChannel")
             ELSE IF env.recommended # "none"
             THEN Assigned([c EXCEPT !.KubernetesVersion = env.recommended], "")
             ELSE Assigned(c, "")
        ELSE Assigned(c, "")
  IN  IF fromChannel.err # "" THEN fromChannel
      ELSE IF fromChannel.c.KubernetesVersion = ""
      THEN IF env.fail = "latest"
           THEN Assigned(fromChannel.c, "unable to download latest version")
           ELSE Assigned([fromChannel.c EXCEPT !.KubernetesVersion = "1.32.0"], "")
      ELSE fromChannel

\* lines 757-870.  gce.PerformNetworkAssignments and assignCIDRsToSubnets
\* assign the CIDRs of subnets, which are not among the fields of the
\* record: a call of either fails or leaves the record as it is.
PerformAssignments(c0_, env) ==
  LET c1 == AssignTopology(AssignBackupRetention(c0_))
  IN  IF c1.cloud = "" THEN Assigned(c1, "cloud cannot be nil")
      ELSE IF c1.cloud = "gce" /\ env.fail = "gce"
      THEN Assigned(c1, "PerformNetworkAssignments")
      ELSE
      LET network == AssignNetworkCIDR(c1, env)
      IN  IF network.err # "" THEN network
          ELSE
          LET c2 == AssignPublicName(AssignNonMasqueradeCIDR(network.c))
          IN  IF c2.cloud \in {"aws", "openstack", "azure"} /\ env.fail = "subnets"
              THEN Assigned(c2, "assignCIDRsToSubnets")
              ELSE
              LET c3 == [c2 EXCEPT !.EgressProxy = assignProxy(c2)]
                  storage == AssignStorageAccount(c3, env)
              IN  IF storage.err # "" THEN storage
                  ELSE ensureKubernetesVersion(storage.c, env)

InitAssignments ==
  /\ cluster0 \in Clusters
  /\ cluster = cluster0
  /\ assignment = [called |-> FALSE, err |-> ""]
  /\ IdleExcept({"assignment"})

PerformAssignmentsCall ==
  /\ ~assignment.called
  /\ \E env \in Consulted(cluster) :
       LET r == PerformAssignments(cluster, env)
       IN  /\ cluster' = r.c
           /\ assignment' = [called |-> TRUE, err |-> r.err]
  /\ UNCHANGED cluster0
  /\ Frame({"assignment"})

SpecAssignments == InitAssignments /\ [][PerformAssignmentsCall]_vars

\* the retention of the i-th etcd cluster of c, nil when it has no manager
BackupRetentionDays(c, i) ==
  IF c.EtcdClusters[i].Manager = Nil THEN Nil
  ELSE Deref(c.EtcdClusters[i].Manager).BackupRetentionDays

\* a call left the field f alone if the cluster had a value for it
KeptIfSet(f) == cluster0[f] # "" => cluster[f] = cluster0[f]

PublicNameKept == cluster0.PublicName # <<>> => cluster.PublicName = cluster0.PublicName

BackupRetentionKept ==
  /\ Len(cluster.EtcdClusters) = Len(cluster0.EtcdClusters)
  /\ \A i \in DOMAIN cluster0.EtcdClusters :
       BackupRetentionDays(cluster0, i) # Nil =>
         BackupRetentionDays(cluster, i) = BackupRetentionDays(cluster0, i)

\* the one case in which a NonMasqueradeCIDR is written over: on AWS with
\* the Amazon VPC CNI, for a cluster that had no NetworkCIDR
FollowsAssignedNetwork ==
  /\ cluster0.cloud = "aws" /\ cluster0.AmazonVPC /\ cluster0.NetworkCIDR = ""
  /\ cluster0.NonMasqueradeCIDR # "::/0"
  /\ cluster.NetworkCIDR # ""
  /\ cluster.NonMasqueradeCIDR = cluster.NetworkCIDR

\* C19 as stated: a NetworkCIDR, NonMasqueradeCIDR, API PublicName, etcd
\* BackupRetentionDays or KubernetesVersion that the cluster spec had before
\* the call is the one it has after it.
C19_OnlyUnsetPopulated ==
  assignment.called =>
    /\ KeptIfSet("NetworkCIDR")
    /\ KeptIfSet("NonMasqueradeCIDR")
    /\ PublicNameKept
    /\ KeptIfSet("KubernetesVersion")
    /\ BackupRetentionKept

\* C19: a NetworkCIDR, API PublicName, etcd BackupRetentionDays or
\* KubernetesVersion that the cluster spec had before the call is the one it
\* has after it, whether the call fails or not; so is a NonMasqueradeCIDR,
\* except that on AWS with the Amazon VPC CNI the NonMasqueradeCIDR (unless
\* it is ::/0) of a cluster that had no NetworkCIDR becomes the NetworkCIDR
\* the call assigned.
C19_SetValuesKept ==
  assignment.called =>
    /\ KeptIfSet("NetworkCIDR")
    /\ KeptIfSet("NonMasqueradeCIDR") \/ FollowsAssignedNetwork
    /\ PublicNameKept
    /\ KeptIfSet("KubernetesVersion")
    /\ BackupRetentionKept

\* a call that succeeded on a cluster that had all five values, on AWS
\* with the Amazon VPC CNI, and that assigned something else
C19_Witness ==
  /\ assignment.called /\ assignment.err = ""
  /\ cluster0.NetworkCIDR # "" /\ cluster0.NonMasqueradeCIDR # ""
  /\ cluster0.PublicName # <<>> /\ cluster0.KubernetesVersion # ""
  /\ cluster0.UsesPublicDNS /\ cluster0.Name # <<>> /\ cluster0.Channel # ""
  /\ cluster0.cloud = "aws" /\ cluster0.AmazonVPC
  /\ Len(cluster0.EtcdClusters) > 0
  /\ BackupRetentionDays(cluster0, 1) = PtrTo(30)
  /\ cluster # cluster0

----------------------------------------------------------------------------
(* RunToolboxEnroll (pkg/commands/toolbox_enroll.go): the enrollment of a  *)
(* bare-metal host over SSH.  What the command does to the outside is a    *)
(* sequence of effects: scripts run and files written on the host, objects *)
(* created in the API server, text printed.                                *)

ToolboxEnrollOptions ==
  [ClusterName : {"", "k.example.com"}, InstanceGroup : {"", "nodes"},
   Host : {"", "10.0.0.9"}, BuildHost : BOOLEAN]

AdditionalFiles == <<"/etc/file-1", "/etc/file-2", "/etc/file-3">>

\* the collaborators that can fail; a call returns at the first failure
FailurePoints ==
  {"none", "KopsClient", "GetFullCluster", "RESTConfig", "NewSSHHost",
   "scriptCreateKey", "readFile", "getHostname", "Marshal",
   "GetFullInstanceGroup", "GetBootstrapData", "client.New", "Create",
   "writeFile", "NodeupScript"}

\* the feature flag, the public key file of the host, the role of the
\* instance group, the bootstrap data and the failure the command meets
Worlds ==
  [Metal : BOOLEAN, publicKey : {"missing", "unreadable", "", "key-1"},
   IsControlPlane : BOOLEAN, files : 0..MaxAdditionalFiles,
   NodeupScript : {"", "nodeup.sh"}, fail : FailurePoints]

Effect(op, what, host) == [op |-> op, what |-> what, host |-> host]

Done(err, did) == [err |-> err, effects |-> did]

\* buildHostData: the Host resource of the target, its key created on the
\* host when the host has none
buildHostData(opts, w) ==
  IF w.publicKey = "unreadable"
  THEN [host |-> Nil, err |-> "error reading public key", effects |-> <<>>]
  ELSE
  LET create == w.publicKey \in {"missing", ""}
      did == IF create THEN <<Effect("runScript", "scriptCreateKey", Nil)>> ELSE <<>>
      publicKey == IF create THEN "key-2" ELSE w.publicKey
  IN  IF create /\ w.fail = "scriptCreateKey"
      THEN [host |-> Nil, err |-> "scriptCreateKey", effects |-> did]
      ELSE IF create /\ w.fail = "readFile"
      THEN [host |-> Nil, err |-> "error reading public key (after creation)",
            effects |-> did]
      ELSE IF w.fail = "getHostname"
      THEN [host |-> Nil, err |-> "getHostname", effects |-> did]
      ELSE [host |-> PtrTo([Namespace |-> "kops-system", Name |-> "host-1",
                            InstanceGroup |-> opts.InstanceGroup,
                            PublicKey |-> publicKey]),
            err |-> "", effects |-> did]

\* the files written in the order visit, up to the one that fails
RECURSIVE WriteFiles(_, _)
WriteFiles(visit, w) ==
  IF visit = <<>> THEN Done("", <<>>)
  ELSE IF w.fail = "writeFile" THEN Done("writing file over SSH", <<>>)
  ELSE LET rest == WriteFiles(Tail(visit), w)
       IN  Done(rest.err,
                <<Effect("writeFile", AdditionalFiles[Head(visit)], Nil)>> \o rest.effects)

\* enrollHost: the Host created in the API server (not for the control
\* plane), the additional files written, the nodeup script run
enrollHost(w, hostData, visit) ==
  IF w.fail = "client.New" THEN Done("building kubernetes client", <<>>)
  ELSE IF ~w.IsControlPlane /\ w.fail = "Create" THEN Done("failed to create host", <<>>)
  ELSE
  LET created == IF ~w.IsControlPlane THEN <<Effect("Create", "Host", hostData)>> ELSE <<>>
      written == WriteFiles(visit, w)
  IN  IF written.err # "" THEN Done(written.err, created \o written.effects)
      ELSE IF w.NodeupScript # ""
      THEN IF w.fail = "NodeupScript"
           THEN Done("NodeupScript", created \o written.effects)
           ELSE Done("", created \o written.effects
                           \o <<Effect("runScript", w.NodeupScript, Nil)>>)
      ELSE Done("", created \o written.effects)

\* lines 134-142 without the return
PrintHostAndGoOn(opts, w, hostData) ==
  IF opts.BuildHost /\ w.fail = "Marshal"
  THEN [returned |-> TRUE, err |-> "error marshalling host data", effects |-> <<>>]
  ELSE [returned |-> FALSE, err |-> "",
        effects |-> IF opts.BuildHost THEN <<Effect("Fprintf", "Host", hostData)>>
                    ELSE <<>>]

\* lines 134-142: with BuildHost, the Host is printed and the command returns
PrintHost(opts, w, hostData) ==
  IF opts.BuildHost
  THEN IF w.fail = "Marshal"
       THEN [returned |-> TRUE, err |-> "error marshalling host data", effects |-> <<>>]
       ELSE [returned |-> TRUE, err |-> "",
             effects |-> <<Effect("Fprintf", "Host", hostData)>>]
  ELSE [returned |-> FALSE, err |-> "", effects |-> <<>>]

RunToolboxEnroll(opts, w, visit) ==
  IF ~w.Metal
  THEN Done("bare-metal support requires the Metal feature flag to be enabled", <<>>)
  ELSE IF opts.ClusterName = "" THEN Done("cluster is required", <<>>)
  ELSE IF opts.InstanceGroup = "" THEN Done("instance-group is required", <<>>)
  ELSE IF opts.Host = "" THEN Done("host is required", <<>>)
  ELSE IF w.fail \in {"KopsClient", "GetFullCluster", "RESTConfig", "NewSSHHost"}
  THEN Done(w.fail, <<>>)
  ELSE
  LET built == buildHostData(opts, w)
  IN  IF built.err # "" THEN Done(built.err, built.effects)
      ELSE
      LET printed == PrintHost(opts, w, built.host)
      IN  IF printed.returned THEN Done(printed.err, built.effects \o printed.effects)
          ELSE IF w.fail \in {"GetFullInstanceGroup", "GetBootstrapData"}
          THEN Done(w.fail, built.effects \o printed.effects)
          ELSE LET enrolled == enrollHost(w, built.host, visit)
               IN  Done(enrolled.err,
                        built.effects \o printed.effects \o enrolled.effects)

InitEnroll ==
  /\ options \in ToolboxEnrollOptions
  /\ world \in Worlds
  /\ effects = <<>>
  /\ enroll = [called |-> FALSE, err |-> ""]
  /\ IdleExcept({"enroll"})

\* NodeupScriptAdditionalFiles is a map: its files are written in any order
RunToolboxEnrollCall ==
  /\ ~enroll.called
  /\ \E visit \in RangeOrders([i \in 1..world.files |-> i]) :
       LET r == RunToolboxEnroll(options, world, visit)
       IN  /\ effects' = r.effects
           /\ enroll' = [called |-> TRUE, err |-> r.err]
  /\ UNCHANGED <<options, world>>
  /\ Frame({"enroll"})

SpecEnroll == InitEnroll /\ [][RunToolboxEnrollCall]_vars

\* C20: with BuildHost set, all the command does to the outside is to
\* create the key of a host that has none and to print the Host it built:
\* nothing is created in the API server, no file is written to the host,
\* the nodeup script is not run; and a command that succeeds printed the
\* Host, last.
C20_BuildHostOnlyPrints ==
  (enroll.called /\ options.BuildHost) =>
    /\ \A i \in DOMAIN effects :
         \/ effects[i] = Effect("runScript", "scriptCreateKey", Nil)
         \/ effects[i].op = "Fprintf" /\ effects[i].host # Nil
    /\ enroll.err = "" =>
         /\ effects # <<>>
         /\ effects[Len(effects)].op = "Fprintf"
         /\ Deref(effects[Len(effects)].host).InstanceGroup = options.InstanceGroup

\* a BuildHost command that succeeded, for a worker with additional files
\* and a nodeup script, which an enrollment would have created, written
\* and run
C20_Witness ==
  /\ enroll.called /\ options.BuildHost /\ enroll.err = ""
  /\ ~world.IsControlPlane /\ world.files > 0 /\ world.NodeupScript # ""
  /\ world.fail = "none"
  /\ Len(effects) = 2
  /\ effects[1].what = "scriptCreateKey"

----------------------------------------------------------------------------
(* BuildKubecfg, as its test pins it down.  The function is not among the  *)
(* sources; what it returns is any KubeconfigBuilder, or an error, and     *)
(* TestBuildKubecfg decides which of them it accepts.                      *)

\* the lifetime of an admin credential, in hours
DefaultKubecfgAdminLifetime == 18

CreateKubecfgOptions(admin, user, internal, override, plugin) ==
  [Admin |-> admin, User |-> user, Internal |-> internal,
   OverrideAPIServer |-> override, UseKopsAuthenticationPlugin |-> plugin]

\* buildMinimalCluster(clusterName, masterPublicName, lbCert, nlb)
buildMinimalCluster(clusterName, masterPublicName, lbCert, nlb) ==
  [Name |-> clusterName, PublicName |-> masterPublicName,
   LoadBalancer |-> IF lbCert \/ nlb
                    THEN PtrTo([SSLCertificate |-> IF lbCert THEN "cert-arn" ELSE "",
                                Class |-> IF nlb THEN "Network" ELSE ""])
                    ELSE Nil]

publicCluster == buildMinimalCluster("testcluster", "testcluster.test.com", FALSE, FALSE)

emptyMasterPublicNameCluster ==
  buildMinimalCluster("emptyMasterPublicNameCluster", "", FALSE, FALSE)

gossipCluster == buildMinimalCluster("testgossipcluster.k8s.local", "", FALSE, TRUE)

certCluster == buildMinimalCluster("testcluster", "testcluster.test.com", TRUE, FALSE)

certNLBCluster == buildMinimalCluster("testcluster", "testcluster.test.com", TRUE, TRUE)

certGossipNLBCluster == buildMinimalCluster("testgossipcluster.k8s.local", "", TRUE, TRUE)

\* a KubeconfigBuilder; CACerts, ClientCert and ClientKey are nil or bytes
KubeconfigBuilder(context, server, caCerts, user, exec) ==
  [Context |-> context, Server |-> server,
   TLSServerName |-> <<"api.internal.", context>>, CACerts |-> caCerts,
   User |-> user, AuthenticationExec |-> exec, ClientCert |-> Nil, ClientKey |-> Nil]

CACerts == PtrTo("nextCertificate + certData")

TestCase(cluster_, opts, want, wantClientCert) ==
  [cluster |-> cluster_, options |-> opts, want |-> want, wantErr |-> FALSE,
   wantClientCert |-> wantClientCert]

\* the table of TestBuildKubecfg, in its order
tests ==
  << TestCase(publicCluster,
              CreateKubecfgOptions(DefaultKubecfgAdminLifetime, "", FALSE, "", FALSE),
              KubeconfigBuilder("testcluster", "https://testcluster.test.com",
                                CACerts, "testcluster", <<>>), TRUE),
     TestCase(certNLBCluster,
              CreateKubecfgOptions(DefaultKubecfgAdminLifetime, "", FALSE, "", FALSE),
              KubeconfigBuilder("testcluster", "https://elbHostName:8443",
                                CACerts, "testcluster", <<>>), TRUE),
     TestCase(certCluster,
              CreateKubecfgOptions(DefaultKubecfgAdminLifetime, "", FALSE, "", FALSE),
              KubeconfigBuilder("testcluster", "https://elbHostName",
                                Nil, "testcluster", <<>>), TRUE),
     TestCase(certNLBCluster,
              CreateKubecfgOptions(0, "", FALSE, "", FALSE),
              KubeconfigBuilder("testcluster", "https://testcluster.test.com",
                                CACerts, "testcluster", <<>>), FALSE),
     TestCase(publicCluster,
              CreateKubecfgOptions(0, "myuser", FALSE, "", FALSE),
              KubeconfigBuilder("testcluster", "https://testcluster.test.com",
                                CACerts, "myuser", <<>>), FALSE),
     TestCase(emptyMasterPublicNameCluster,
              CreateKubecfgOptions(0, "", FALSE, "", FALSE),
              KubeconfigBuilder("emptyMasterPublicNameCluster",
                                "https://api.emptyMasterPublicNameCluster",
                                CACerts, "emptyMasterPublicNameCluster", <<>>), FALSE),
     TestCase(gossipCluster,
              CreateKubecfgOptions(0, "", FALSE, "", FALSE),
              KubeconfigBuilder("testgossipcluster.k8s.local", "https://elbHostName",
                                CACerts, "testgossipcluster.k8s.local", <<>>), FALSE),
     TestCase(publicCluster,
              CreateKubecfgOptions(0, "", FALSE, "", TRUE),
              KubeconfigBuilder("testcluster", "https://testcluster.test.com",
                                CACerts, "testcluster",
                                <<"kops", "helpers", "kubectl-auth", "--cluster=testcluster",
                                  "--state=memfs://example-state-store">>), FALSE),
     TestCase(publicCluster,
              CreateKubecfgOptions(DefaultKubecfgAdminLifetime, "", TRUE, "", FALSE),
              KubeconfigBuilder("testcluster", "https://api.internal.testcluster",
                                CACerts, "testcluster", <<>>), TRUE),
     TestCase(certGossipNLBCluster,
              CreateKubecfgOptions(DefaultKubecfgAdminLifetime, "", FALSE, "", FALSE),
              KubeconfigBuilder("testgossipcluster.k8s.local", "https://elbHostName:8443",
                                CACerts, "testgossipcluster.k8s.local", <<>>), TRUE),
     TestCase(publicCluster,
              CreateKubecfgOptions(DefaultKubecfgAdminLifetime, "", TRUE, "", FALSE),
              KubeconfigBuilder("testcluster", "https://api.internal.testcluster",
                                CACerts, "testcluster", <<>>), TRUE),
     TestCase(publicCluster,
              CreateKubecfgOptions(0, "", TRUE, "", FALSE),
              KubeconfigBuilder("testcluster", "https://api.internal.testcluster",
                                CACerts, "testcluster", <<>>), FALSE),
     TestCase(publicCluster,
              CreateKubecfgOptions(DefaultKubecfgAdminLifetime, "", TRUE,
                                   "https://api.testcluster.example.com", FALSE),
              KubeconfigBuilder("testcluster", "https://api.testcluster.example.com",
                                CACerts, "testcluster", <<>>), TRUE) >>

\* what BuildKubecfg can return for a case: an error, or a builder with the
\* server and the CA certificates the case wants or others, and with or
\* without a client certificate and a client key
BuildKubecfg(tt) ==
  {[err |-> er, builder |-> [tt.want EXCEPT !.Server = sv, !.CACerts = ca,
                                          !.ClientCert = cc, !.ClientKey = ck]] :
     er \in BOOLEAN, sv \in {tt.want.Server, "https://203.0.113.1"},
     ca \in {Nil, CACerts},
     cc \in {Nil, PtrTo("client certificate")}, ck \in {Nil, PtrTo("client key")}}

\* the checks of a case with the client key never looked at
RunTestCertOnly(tt, g) ==
  IF g.err # tt.wantErr THEN <<"BuildKubecfg() error">>
  ELSE LET missing == IF tt.wantClientCert /\ g.builder.ClientCert = Nil
                      THEN <<"Expected ClientCert, got nil">> ELSE <<>>
           want == IF tt.wantClientCert
                   THEN [tt.want EXCEPT !.ClientCert = g.builder.ClientCert,
                                        !.ClientKey = g.builder.ClientKey]
                   ELSE tt.want
       IN  missing \o (IF g.builder # want THEN <<"BuildKubecfg() diff">> ELSE <<>>)

\* lines 442-459: the errors the test reports for what BuildKubecfg returned
RunTest(tt, g) ==
  IF g.err # tt.wantErr THEN <<"BuildKubecfg() error">>
  ELSE LET missing ==
             IF tt.wantClientCert
             THEN (IF g.builder.ClientCert = Nil
                   THEN <<"Expected ClientCert, got nil">> ELSE <<>>)
                    \o (IF g.builder.ClientKey = Nil
                        THEN <<"Expected ClientKey, got nil">> ELSE <<>>)
             ELSE <<>>
           want == IF tt.wantClientCert
                   THEN [tt.want EXCEPT !.ClientCert = g.builder.ClientCert,
                                        !.ClientKey = g.builder.ClientKey]
                   ELSE tt.want
       IN  missing \o (IF g.builder # want THEN <<"BuildKubecfg() diff">> ELSE <<>>)

InitKubecfg ==
  /\ testCase = 1
  /\ kubecfg = <<>>
  /\ reported = <<>>
  /\ IdleExcept({"kubecfg"})

\* t.Run of the next case
RunCase ==
  /\ testCase \in DOMAIN tests
  /\ \E g \in BuildKubecfg(tests[testCase]) :
       /\ kubecfg' = g
       /\ reported' = RunTest(tests[testCase], g)
  /\ reported = <<>>
  /\ testCase' = testCase + 1
  /\ Frame({"kubecfg"})

SpecKubecfg == InitKubecfg /\ [][RunCase]_vars

\* the case that was run last
LastCase == tests[testCase - 1]

====
